---- MODULE Spec2Model ----
(***************************************************************************)
(* MemoryPing reminder bot (src/reminder_bot.py): the reminder store, the  *)
(* job queue of one-shot timers, the delivery handler, the snooze /        *)
(* complete / delete / dismiss buttons and the reschedule-on-startup hook. *)
(*                                                                         *)
(* Time is counted in minutes on one time line.  A datetime is a record    *)
(* [t, aware]: the instant and whether the value carries a tzinfo.  Python *)
(* raises TypeError when an aware and a naive datetime are compared with   *)
(* an ordering operator or subtracted; the handlers below abort (or, in    *)
(* reschedule_reminders, skip the reminder) exactly where the code does.   *)
(***************************************************************************)
EXTENDS Integers, Sequences, FiniteSets, Bags, TLC

VARIABLES
    now,        \* the wall clock, in minutes
    reminders,  \* data_manager.reminders : reminder_id -> record
    stats,      \* data_manager.stats     : chat_id -> counters
    disk,       \* reminders.json
    diskStats,  \* stats.json
    jobs,       \* job queue: bag of armed one-shot send_reminder jobs
    sent,       \* bag of notifications handed to bot.send_message
    issued,     \* every reminder_id add_reminder has returned so far
    count,      \* how many create / snooze / complete handlers have run
    last,       \* the handler that ran last, its inputs and its outcome
    locks       \* file_locks: the locks held, and the steps the Store
                \* operation in progress still has to take

vars == <<now, reminders, stats, disk, diskStats, jobs, sent, issued, count, last,
          locks>>

----------------------------------------------------------------------------
(* Bounds of the model *)

MaxTime == 22
MaxCreated == 1
MaxSnoozed == 2
MaxCompleted == 2
\* reminders created in the specification of the id scheme
MaxReuse == 2
\* applications of the recurrence rule to one reminder
MaxApplied == 2
\* tokens of a time expression
MaxTokens == 4

----------------------------------------------------------------------------
(* Inputs and program constants *)

Chats == {1}
Messages == {"call mom"}
CategoryValues == {"other"}
\* wall-clock instants a message can name ("at 5pm": seconds and
\* microseconds are zeroed, so two messages can name the same instant)
ClockTimes == {10}
RecurringValues == {"none", "daily", "weekly"}
PriorityValues == {"medium"}
TemplateMinutes == {15, 30, 60, 120}
SnoozeMinutes == {5, 15, 60}
\* TEMPLATES: the key, as the pieces "_" splits it into, the text and the
\* category (two of the six templates)
TEMPLATES ==
    {[key |-> <<"water">>, text |-> "Drink water", category |-> "health"],
     [key |-> <<"call", "family">>, text |-> "Call family", category |-> "family"]}
\* the buttons the model presses
TemplateInputs == {n \in TemplateMinutes : n < 30}
SnoozeInputs == {n \in SnoozeMinutes : n < 60}
\* Python values of different types: an int and a str are never equal
PyInt(n) == [type |-> "int", n |-> n, s |-> ""]
PyStr(s) == [type |-> "str", n |-> 0, s |-> s]
\* x in xs, for a list xs
PyIn(x, xs) == \E i \in 1..Len(xs) : xs[i] = x

\* the chats of two users, and the username Telegram knows each of them by
Users == {1, 2}
Username == [c \in Users |-> IF c = 1 THEN "alice" ELSE "bob"]
\* the @usernames a message can carry
ShareInputs == {<<>>, <<PyStr("bob")>>}
UserPriorities == {"high", "medium"}
MinutesPerDay == 1440
DaysPerWeek == 7
\* reminder_botv4.py: timedelta(days=30), and weekday() >= 5
MonthDays == 30
Saturday == 5
WriteOutcomes == {"ok", "open_failed", "truncated"}

None == [t |-> -1, aware |-> FALSE]

----------------------------------------------------------------------------
(* Dictionaries *)

EmptyDict == [k \in {} |-> TRUE]
Put(d, k, v) == [x \in (DOMAIN d) \cup {k} |-> IF x = k THEN v ELSE d[x]]
Del(d, k) == [x \in (DOMAIN d) \ {k} |-> d[x]]

----------------------------------------------------------------------------
(* datetime *)

NowNaive == [t |-> now, aware |-> FALSE]
NowAware == [t |-> now, aware |-> TRUE]
PlusMinutes(d, m) == [d EXCEPT !.t = @ + m]
Localize(d) == [d EXCEPT !.aware = TRUE]
\* ordering comparison or subtraction of d1 and d2 raises TypeError
RaisesTypeError(d1, d2) == d1.aware # d2.aware
IsoFormat(d) == <<d.t, d.aware>>
FromIsoFormat(s) == [t |-> s[1], aware |-> s[2]]
Timestamp(d) == d.t

----------------------------------------------------------------------------
(* DataManager: _save / _load *)

FileOf(data) == [kind |-> "ok", data |-> data]
CorruptFile == [kind |-> "corrupt", data |-> EmptyDict]
MissingFile == [kind |-> "missing", data |-> EmptyDict]

\* _save: the exception of a failed write is logged and swallowed.  open()
\* may fail (file untouched) or json.dump may fail after open(.., 'w') has
\* truncated the file.
Save(data, file, w) ==
    IF w = "ok" THEN FileOf(data)
    ELSE IF w = "open_failed" THEN file
    ELSE CorruptFile

\* a _save whose exception is swallowed without a word
SaveSilent(key, w) == {}

\* _save: logger.error names the collection whose write failed
SaveLog(key, w) == IF w = "ok" THEN {} ELSE {key}

Load(file) == IF file.kind = "ok" THEN file.data ELSE EmptyDict

\* a _load without its try / except: the exception of json.load escapes
LoadRaisesOnCorrupt(file) == file.kind = "corrupt"

\* _load: an exception escapes to DataManager.__init__ (the file is looked
\* for first, json.load runs inside try / except Exception)
LoadRaises(file) == FALSE

----------------------------------------------------------------------------
(* MemoryPingEngine *)

\* the counters of stats.json (the xp of a chat is not modelled)
NewStats == [created |-> 0, completed |-> 0, snoozed |-> 0]

\* an update_stats that counts every action as a creation
update_stats_created(st, chat_id, action) ==
    LET s0 == IF chat_id \in DOMAIN st THEN st[chat_id] ELSE NewStats
    IN  Put(st, chat_id, [s0 EXCEPT !.created = @ + 1])

update_stats(st, chat_id, action) ==
    LET s0 == IF chat_id \in DOMAIN st THEN st[chat_id] ELSE NewStats
    IN  Put(st, chat_id, [s0 EXCEPT ![action] = @ + 1])

ReminderId(chat_id, remind_time, store) ==
    <<chat_id, Timestamp(remind_time), Cardinality(DOMAIN store)>>

\* a reminder that keeps the default category whatever it was given
NewReminderDefaultCategory(chat_id, message, remind_time, recurring, category, priority, shared_with) ==
    [chat_id |-> chat_id, message |-> message,
     time |-> IsoFormat(remind_time), recurring |-> recurring,
     category |-> "other", priority |-> priority,
     shared_with |-> shared_with, completed |-> FALSE]

\* the record add_reminder stores (notes and created_at are not modelled)
NewReminder(chat_id, message, remind_time, recurring, category, priority, shared_with) ==
    [chat_id |-> chat_id, message |-> message,
     time |-> IsoFormat(remind_time), recurring |-> recurring,
     category |-> category, priority |-> priority,
     shared_with |-> shared_with, completed |-> FALSE]

\* get_user_reminders(chat_id), without a category filter
get_user_reminders(store, chat_id) ==
    LET keys == {k \in DOMAIN store :
                    /\ store[k].chat_id = chat_id
                           \/ PyIn(PyInt(chat_id), store[k].shared_with)
                    /\ ~store[k].completed}
    IN  [k \in keys |-> store[k]]

Job(reminder_id, chat_id, message, priority, when) ==
    [reminder_id |-> reminder_id, chat_id |-> chat_id, message |-> message,
     priority |-> priority, at |-> when]

\* job_queue.run_once(send_reminder, delay, data): the job runs delay after
\* the present instant
RunOnce(queue, delay, reminder_id, chat_id, message, priority) ==
    queue (+) SetToBag({Job(reminder_id, chat_id, message, priority, now + delay)})

\* (d1 - d2).total_seconds(), defined when the subtraction does not raise
Delay(d1, d2) == d1.t - d2.t

Notification(job) ==
    [reminder_id |-> job.reminder_id, chat_id |-> job.chat_id,
     message |-> job.message, priority |-> job.priority]

JobsFor(id) == {j \in BagToSet(jobs) : j.reminder_id = id}
ArmedCount(id) ==
    LET js == JobsFor(id)
        RECURSIVE Sum(_)
        Sum(S) == IF S = {} THEN 0
                  ELSE LET j == CHOOSE x \in S : TRUE
                       IN  CopiesIn(j, jobs) + Sum(S \ {j})
    IN  Sum(js)

\* no Store operation is in progress and no lock is held
Idle == [held |-> {}, todo |-> <<>>]

----------------------------------------------------------------------------
Init ==
    /\ now = 0
    /\ reminders = EmptyDict
    /\ stats = EmptyDict
    /\ disk = MissingFile
    /\ diskStats = MissingFile
    /\ jobs = EmptyBag
    /\ sent = EmptyBag
    /\ issued = {}
    /\ count = [create |-> 0, snooze |-> 0, complete |-> 0]
    /\ last = [op |-> "init"]
    /\ locks = Idle

\* The clock moves forward to an instant at which something can be observed:
\* an instant a message can name, the run time of an armed job, or the end
\* of the modelled period.  It may pass the run time of a job (the process is
\* down, or the job queue is late).
TickTargets == ClockTimes \cup {j.at : j \in BagToSet(jobs)} \cup {MaxTime}

Tick(t) ==
    /\ t \in TickTargets
    /\ now < t /\ t <= MaxTime
    /\ now' = t
    /\ last' = [op |-> "tick"]
    /\ UNCHANGED <<reminders, stats, disk, diskStats, jobs, sent, issued, count>>

\* add_reminder, then the run_once of its caller
AddAndArm(chat_id, message, remind_time, current_time, recurring, category, priority, shared_with, w1, w2, op) ==
    LET reminder_id == ReminderId(chat_id, remind_time, reminders)
        store == Put(reminders, reminder_id,
                     NewReminder(chat_id, message, remind_time, recurring,
                                 category, priority, shared_with))
    IN  /\ reminders' = store
        /\ disk' = Save(store, disk, w1)
        /\ stats' = update_stats(stats, chat_id, "created")
        /\ diskStats' = Save(stats', diskStats, w2)
        /\ issued' = issued \cup {reminder_id}
        /\ count' = [count EXCEPT !.create = @ + 1]
        /\ jobs' = IF RaisesTypeError(remind_time, current_time) THEN jobs
                   ELSE RunOnce(jobs, Delay(remind_time, current_time),
                                reminder_id, chat_id, message, priority)
        /\ last' = [op |-> op, id |-> reminder_id,
                    logged |-> SaveLog("reminders", w1) \cup SaveLog("stats", w2)]
        /\ UNCHANGED <<now, sent>>

\* a test that lets the present instant through
PastTimeStrict(remind_time, current_time) == remind_time.t < current_time.t

\* remind_time <= current_time (both are aware: the comparison does not raise)
PastTime(remind_time, current_time) == remind_time.t <= current_time.t

\* handle_message with a text whose time expression resolves to the
\* wall-clock instant t ("at 5pm": seconds and microseconds are zero)
handle_message(chat_id, message, t, recurring, category, priority, shared_with, w1, w2) ==
    LET current_time == NowAware
        remind_time == [current_time EXCEPT !.t = t]
    IN  IF PastTime(remind_time, current_time)
        THEN /\ last' = [op |-> "rejected", time |-> remind_time]
             /\ UNCHANGED <<now, reminders, stats, disk, diskStats, jobs, sent,
                            issued, count>>
        ELSE AddAndArm(chat_id, message, remind_time, current_time, recurring,
                       category, priority, shared_with, w1, w2, "create")

\* data.split("_") of the callback data "template_<key>_<minutes>"
Word(w) == [kind |-> "word", word |-> w, num |-> 0]
Number(n) == [kind |-> "number", word |-> "", num |-> n]
TemplateData(template, minutes) ==
    <<Word("template")>> \o [i \in 1..Len(template.key) |-> Word(template.key[i])]
        \o <<Number(minutes)>>

\* button_callback, template branch.  int(parts[2]) raises ValueError on a
\* word, TEMPLATES[template_key] raises KeyError on a key that is not one.
\* datetime.now() is naive and has microsecond resolution, so now + minutes
\* is an instant no reminder was given before.
button_template(chat_id, data, w1, w2) ==
    LET parts == data
        template_key == parts[2]
        known == {tp \in TEMPLATES : tp.key = <<template_key.word>>}
    IN  IF parts[3].kind # "number" \/ known = {}
        THEN /\ last' = [op |-> "template_raised"]
             /\ UNCHANGED <<now, reminders, stats, disk, diskStats, jobs, sent,
                            issued, count>>
        ELSE LET template == CHOOSE tp \in known : TRUE
                 minutes == parts[3].num
                 current_time == NowNaive
                 remind_time == PlusMinutes(current_time, minutes)
             IN  /\ \A i \in issued : i[2] # Timestamp(remind_time)
                 /\ AddAndArm(chat_id, template.text, remind_time, current_time,
                              "none", template.category, "medium", <<>>,
                              w1, w2, "template")

NextOccurrence(current_time, recurring) ==
    IF recurring = "daily" THEN PlusMinutes(current_time, MinutesPerDay)
    ELSE IF recurring = "weekly" THEN PlusMinutes(current_time, DaysPerWeek * MinutesPerDay)
    ELSE PlusMinutes(current_time, MinutesPerDay)

\* a send_reminder that leaves the store after_once(reminder_id) when it has
\* delivered a reminder that does not recur
send_reminder_then(j, w, after_once(_)) ==
    LET reminder_id == j.reminder_id
        rest == jobs (-) SetToBag({j})
        present == reminder_id \in DOMAIN reminders
    IN  /\ BagIn(j, jobs)
        /\ j.at <= now
        /\ IF present /\ reminders[reminder_id].recurring # "none"
           THEN LET rdata == reminders[reminder_id]
                    current_time == FromIsoFormat(rdata.time)
                    next_time == NextOccurrence(current_time, rdata.recurring)
                    store == Put(reminders, reminder_id,
                                 [rdata EXCEPT !.time = IsoFormat(next_time)])
                    raised == RaisesTypeError(next_time, NowNaive)
                IN  /\ reminders' = store
                    /\ disk' = Save(store, disk, w)
                    /\ jobs' = IF raised THEN rest
                               ELSE RunOnce(rest, Delay(next_time, NowNaive),
                                            reminder_id, j.chat_id, j.message,
                                            j.priority)
                    /\ sent' = IF raised THEN sent
                               ELSE sent (+) SetToBag({Notification(j)})
                    /\ last' = [op |-> "fire", id |-> reminder_id,
                                logged |-> SaveLog("reminders", w)]
           ELSE /\ jobs' = rest
                /\ sent' = sent (+) SetToBag({Notification(j)})
                /\ last' = [op |-> "fire", id |-> reminder_id, logged |-> {}]
                /\ reminders' = IF present THEN after_once(reminder_id)
                                ELSE reminders
                /\ disk' = IF present THEN Save(reminders', disk, w) ELSE disk
        /\ UNCHANGED <<now, stats, diskStats, issued, count>>

\* a send_reminder for which a delivery is a completion
MarkedCompleted(reminder_id) ==
    Put(reminders, reminder_id, [reminders[reminder_id] EXCEPT !.completed = TRUE])
send_reminder_completing(j, w) == send_reminder_then(j, w, MarkedCompleted)

\* a send_reminder that removes what it has delivered
Removed(reminder_id) == Del(reminders, reminder_id)
send_reminder_purging(j, w) == send_reminder_then(j, w, Removed)

\* send_reminder: the job j of the queue runs
send_reminder(j, w) ==
    LET reminder_id == j.reminder_id
        rest == jobs (-) SetToBag({j})
        present == reminder_id \in DOMAIN reminders
    IN  /\ BagIn(j, jobs)
        /\ j.at <= now
        /\ IF present /\ reminders[reminder_id].recurring # "none"
           THEN LET rdata == reminders[reminder_id]
                    current_time == FromIsoFormat(rdata.time)
                    next_time == NextOccurrence(current_time, rdata.recurring)
                    store == Put(reminders, reminder_id,
                                 [rdata EXCEPT !.time = IsoFormat(next_time)])
                    raised == RaisesTypeError(next_time, NowNaive)
                IN  /\ reminders' = store
                    /\ disk' = Save(store, disk, w)
                    /\ jobs' = IF raised THEN rest
                               ELSE RunOnce(rest, Delay(next_time, NowNaive),
                                            reminder_id, j.chat_id, j.message,
                                            j.priority)
                    /\ sent' = IF raised THEN sent
                               ELSE sent (+) SetToBag({Notification(j)})
                    /\ last' = [op |-> "fire", id |-> reminder_id,
                                logged |-> SaveLog("reminders", w)]
           ELSE /\ jobs' = rest
                /\ sent' = sent (+) SetToBag({Notification(j)})
                /\ last' = [op |-> "fire", id |-> reminder_id, logged |-> {}]
                /\ UNCHANGED <<reminders, disk>>
        /\ UNCHANGED <<now, stats, diskStats, issued, count>>

\* a snooze that counts the minutes from the present instant
snooze_from_now(current_time, minutes) ==
    PlusMinutes([current_time EXCEPT !.t = now], minutes)

\* snooze_reminder: the new time is counted from the stored time
snooze_reminder(current_time, minutes) == PlusMinutes(current_time, minutes)

\* button_callback, snooze branch: a press of a snooze button of the
\* notification d
button_snooze(d, minutes, w1, w2) ==
    LET reminder_id == d.reminder_id
        chat_id == d.chat_id
    IN  /\ BagIn(d, sent)
        /\ count.snooze < MaxSnoozed
        /\ count' = [count EXCEPT !.snooze = @ + 1]
        /\ IF reminder_id \in DOMAIN reminders
           THEN LET rdata == reminders[reminder_id]
                    current_time == FromIsoFormat(rdata.time)
                    new_time == snooze_reminder(current_time, minutes)
                    store == Put(reminders, reminder_id,
                                 [rdata EXCEPT !.time = IsoFormat(new_time)])
                    raised == RaisesTypeError(new_time, NowNaive)
                IN  /\ reminders' = store
                    /\ disk' = Save(store, disk, w1)
                    /\ stats' = update_stats(stats, chat_id, "snoozed")
                    /\ diskStats' = Save(stats', diskStats, w2)
                    /\ jobs' = IF raised THEN jobs
                               ELSE RunOnce(jobs, Delay(new_time, NowNaive),
                                            reminder_id, chat_id,
                                            store[reminder_id].message,
                                            store[reminder_id].priority)
                    /\ last' = [op |-> "snooze", id |-> reminder_id,
                                minutes |-> minutes, ret |-> new_time,
                                logged |-> SaveLog("reminders", w1)
                                               \cup SaveLog("stats", w2)]
           ELSE /\ last' = [op |-> "snooze", id |-> reminder_id,
                            minutes |-> minutes, ret |-> None, logged |-> {}]
                /\ UNCHANGED <<reminders, disk, stats, diskStats, jobs>>
        /\ UNCHANGED <<now, sent, issued>>

\* a complete_reminder that leaves the flag as it is
complete_keeps_flag(store, reminder_id) == store

\* complete_reminder: the record is marked, not removed
complete_reminder(store, reminder_id) ==
    Put(store, reminder_id, [store[reminder_id] EXCEPT !.completed = TRUE])

\* button_callback, complete branch (the button of a list or of a
\* notification).  update_stats and update_xp both write stats.json; the
\* file they leave is one of the files a single write can leave.
button_complete(reminder_id, w1, w2) ==
    /\ reminder_id \in issued
    /\ count.complete < MaxCompleted
    /\ count' = [count EXCEPT !.complete = @ + 1]
    /\ IF reminder_id \in DOMAIN reminders
       THEN LET store == complete_reminder(reminders, reminder_id)
                chat_id == store[reminder_id].chat_id
            IN  /\ reminders' = store
                /\ disk' = Save(store, disk, w1)
                /\ stats' = update_stats(stats, chat_id, "completed")
                /\ diskStats' = Save(stats', diskStats, w2)
                /\ last' = [op |-> "complete", id |-> reminder_id, ret |-> TRUE,
                            logged |-> SaveLog("reminders", w1)
                                           \cup SaveLog("stats", w2)]
       ELSE /\ last' = [op |-> "complete", id |-> reminder_id, ret |-> FALSE,
                        logged |-> {}]
            /\ UNCHANGED <<reminders, disk, stats, diskStats>>
    /\ UNCHANGED <<now, jobs, sent, issued>>

delete_reminder(store, reminder_id) == Del(store, reminder_id)

\* a delete branch that answers "Deleted!" whatever delete_reminder returned
button_delete_unchecked(reminder_id, branch, w) ==
    /\ \/ branch = "delete" /\ reminder_id \in issued
       \/ branch = "dismiss" /\ \E d \in BagToSet(sent) : d.reminder_id = reminder_id
    /\ reminders' = delete_reminder(reminders, reminder_id)
    /\ disk' = Save(reminders', disk, w)
    /\ last' = [op |-> "delete", id |-> reminder_id, ret |-> TRUE,
                logged |-> SaveLog("reminders", w)]
    /\ UNCHANGED <<now, stats, diskStats, jobs, sent, issued, count>>

\* button_callback, delete branch (the button of a list) and dismiss branch
\* (the button of a notification): both call delete_reminder
button_delete(reminder_id, branch, w) ==
    /\ \/ branch = "delete" /\ reminder_id \in issued
       \/ branch = "dismiss" /\ \E d \in BagToSet(sent) : d.reminder_id = reminder_id
    /\ IF reminder_id \in DOMAIN reminders
       THEN /\ reminders' = delete_reminder(reminders, reminder_id)
            /\ disk' = Save(reminders', disk, w)
            /\ last' = [op |-> "delete", id |-> reminder_id, ret |-> TRUE,
                        logged |-> SaveLog("reminders", w)]
       ELSE /\ last' = [op |-> "delete", id |-> reminder_id, ret |-> FALSE,
                        logged |-> {}]
            /\ UNCHANGED <<reminders, disk>>
    /\ UNCHANGED <<now, stats, diskStats, jobs, sent, issued, count>>

\* reschedule_reminders: one pass over the loaded reminders.  The state is
\* [store, queue, file]; ids is the part of the snapshot still to visit.
RECURSIVE reschedule_reminders(_, _, _)
reschedule_reminders(ids, st, w) ==
    IF ids = {} THEN st
    ELSE LET reminder_id == CHOOSE x \in ids : TRUE
             rdata == st.snapshot[reminder_id]
             current_time == NowNaive
             parsed == FromIsoFormat(rdata.time)
             remind_time == IF parsed.aware THEN parsed ELSE Localize(parsed)
             step ==
                 IF rdata.completed THEN st
                 ELSE IF RaisesTypeError(remind_time, current_time) THEN st
                 ELSE IF remind_time.t > current_time.t
                 THEN [st EXCEPT !.queue = RunOnce(@, Delay(remind_time, current_time),
                           reminder_id, rdata.chat_id, rdata.message,
                           rdata.priority)]
                 ELSE IF rdata.recurring = "none"
                 THEN IF reminder_id \in DOMAIN st.store
                      THEN [st EXCEPT !.store = delete_reminder(@, reminder_id),
                                      !.file = Save(delete_reminder(st.store, reminder_id),
                                                    @, w)]
                      ELSE st
                 ELSE st
         IN  reschedule_reminders(ids \ {reminder_id}, step, w)

\* The process stops and starts again: the job queue is lost, DataManager
\* loads the files, post_init runs reschedule_reminders.  An exception that
\* escaped _load would end the process before the bot is built.
Restart(w) ==
    LET loaded == Load(disk)
        st == reschedule_reminders(DOMAIN loaded,
                         [snapshot |-> loaded, store |-> loaded,
                          queue |-> EmptyBag, file |-> disk], w)
    IN  IF LoadRaises(disk) \/ LoadRaises(diskStats)
        THEN /\ reminders' = EmptyDict
             /\ stats' = EmptyDict
             /\ jobs' = EmptyBag
             /\ last' = [op |-> "aborted"]
             /\ UNCHANGED <<now, disk, diskStats, sent, issued, count>>
        ELSE /\ reminders' = st.store
             /\ disk' = st.file
             /\ jobs' = st.queue
             /\ stats' = Load(diskStats)
             /\ last' = [op |-> "restart"]
             /\ UNCHANGED <<now, diskStats, sent, issued, count>>

\* One step of the running process when every write of a file has an outcome
\* of W and at most maxCreated reminders are created, by the chats C.  The
\* messages draw their recurrence, priority and @usernames from R, P and S.
HandlersFor(W, maxCreated, C, R, P, S) ==
    \/ \E t \in 0..MaxTime : Tick(t) /\ UNCHANGED locks
    \/ \E c \in C, m \in Messages, t \in ClockTimes, r \in R,
          g \in CategoryValues, p \in P, s \in S, w1, w2 \in W :
          /\ count.create < maxCreated
          /\ handle_message(c, m, t, r, g, p, s, w1, w2)
          /\ UNCHANGED locks
    \/ \E c \in C, tp \in TEMPLATES, n \in TemplateInputs, w1, w2 \in W :
          /\ count.create < maxCreated
          /\ button_template(c, TemplateData(tp, n), w1, w2)
          /\ UNCHANGED locks
    \/ \E j \in BagToSet(jobs), w \in W : send_reminder(j, w) /\ UNCHANGED locks
    \/ \E d \in BagToSet(sent), n \in SnoozeInputs, w1, w2 \in W :
          button_snooze(d, n, w1, w2) /\ UNCHANGED locks
    \/ \E id \in issued, w1, w2 \in W :
          button_complete(id, w1, w2) /\ UNCHANGED locks
    \/ \E id \in issued, b \in {"delete", "dismiss"}, w \in W :
          button_delete(id, b, w) /\ UNCHANGED locks

\* The messages of one chat that name no other user.
Handlers(W, maxCreated) ==
    HandlersFor(W, maxCreated, Chats, RecurringValues, PriorityValues, {<<>>})

\* One step of the system: a step of the running process, or a restart.
Step(W, maxCreated) ==
    \/ Handlers(W, maxCreated)
    \/ \E w \in W : Restart(w) /\ UNCHANGED locks

\* Every write of a file succeeds.
Next == Step({"ok"}, MaxCreated)

Spec == Init /\ [][Next]_vars

\* The same system with enough creations for an id to be given twice.
NextReuse == Step({"ok"}, MaxReuse)

SpecReuse == Init /\ [][NextReuse]_vars

\* The system when a write of a file can fail: open() fails and leaves the
\* file, or json.dump fails after open() has truncated it.
NextIO == Step(WriteOutcomes, MaxCreated)

SpecIO == Init /\ [][NextIO]_vars

\* The system with the chats of two users, who write messages (no template
\* button is pressed).
NextUsers ==
    \/ \E t \in 0..MaxTime : Tick(t) /\ UNCHANGED locks
    \/ \E c \in Users, m \in Messages, t \in ClockTimes, g \in CategoryValues,
          p \in PriorityValues :
          /\ count.create < MaxCreated
          /\ handle_message(c, m, t, "none", g, p, <<>>, "ok", "ok")
          /\ UNCHANGED locks
    \/ \E j \in BagToSet(jobs) : send_reminder(j, "ok") /\ UNCHANGED locks
    \/ \E d \in BagToSet(sent), n \in SnoozeInputs :
          button_snooze(d, n, "ok", "ok") /\ UNCHANGED locks
    \/ \E id \in issued : button_complete(id, "ok", "ok") /\ UNCHANGED locks
    \/ \E id \in issued, b \in {"delete", "dismiss"} :
          button_delete(id, b, "ok") /\ UNCHANGED locks
    \/ Restart("ok") /\ UNCHANGED locks

SpecUsers == Init /\ [][NextUsers]_vars

\* The system with reminders of two priorities, and enough creations for an
\* id to be given twice.
NextPriorities ==
    \/ HandlersFor({"ok"}, MaxReuse, Chats, {"none"}, UserPriorities, {<<>>})
    \/ Restart("ok") /\ UNCHANGED locks

SpecPriorities == Init /\ [][NextPriorities]_vars

\* The Store alone: the two users create, complete and delete reminders as
\* time passes (no job runs); a message may name the other user.
NextStore ==
    \/ \E t \in 0..MaxTime : Tick(t) /\ UNCHANGED locks
    \/ \E c \in Users, m \in Messages, t \in ClockTimes, r \in RecurringValues,
          g \in CategoryValues, p \in UserPriorities, s \in ShareInputs :
          /\ count.create < MaxCreated
          /\ handle_message(c, m, t, r, g, p, s, "ok", "ok")
          /\ UNCHANGED locks
    \/ \E c \in Users, tp \in TEMPLATES, n \in TemplateInputs :
          /\ count.create < MaxCreated
          /\ button_template(c, TemplateData(tp, n), "ok", "ok")
          /\ UNCHANGED locks
    \/ \E id \in issued : button_complete(id, "ok", "ok") /\ UNCHANGED locks
    \/ \E id \in issued : button_delete(id, "delete", "ok") /\ UNCHANGED locks

SpecStore == Init /\ [][NextStore]_vars

\* The running process alone: no restart.  The clock advances and the job
\* queue runs a job that is due.
NextLive == Handlers({"ok"}, MaxCreated)

FairTimers ==
    /\ WF_vars(\E t \in 0..MaxTime : Tick(t) /\ UNCHANGED locks)
    /\ WF_vars(\E j \in BagToSet(jobs) : send_reminder(j, "ok") /\ UNCHANGED locks)

SpecLive == Init /\ [][NextLive]_vars /\ FairTimers

----------------------------------------------------------------------------
(* The recurrence rules of reminder_botv4.py, which adds monthly and       *)
(* weekday to the daily and weekly of reminder_bot.py                      *)

EngineRules == {"daily", "weekly", "monthly", "weekday"}

\* datetime.weekday(): Monday is 0 and Sunday is 6 (day 0 of the time line
\* is a Monday)
WeekdayOf(d) == (d.t \div MinutesPerDay) % DaysPerWeek

\* a loop that lets a Saturday through
RECURSIVE SkipSunday(_)
SkipSunday(d) ==
    IF WeekdayOf(d) > Saturday THEN SkipSunday(PlusMinutes(d, MinutesPerDay)) ELSE d

\* while next_time.weekday() >= 5: next_time += timedelta(days=1)
RECURSIVE SkipWeekend(_)
SkipWeekend(d) ==
    IF WeekdayOf(d) >= Saturday THEN SkipWeekend(PlusMinutes(d, MinutesPerDay)) ELSE d

\* a rule set whose month is a week
next_time_short_month(current_time, recurring) ==
    IF recurring = "daily" THEN PlusMinutes(current_time, MinutesPerDay)
    ELSE IF recurring = "weekly" THEN PlusMinutes(current_time, DaysPerWeek * MinutesPerDay)
    ELSE IF recurring = "monthly" THEN PlusMinutes(current_time, DaysPerWeek * MinutesPerDay)
    ELSE IF recurring = "weekday" THEN SkipWeekend(PlusMinutes(current_time, MinutesPerDay))
    ELSE None

\* a rule set whose weekday rule lets a Saturday through
next_time_saturday(current_time, recurring) ==
    IF recurring = "daily" THEN PlusMinutes(current_time, MinutesPerDay)
    ELSE IF recurring = "weekly" THEN PlusMinutes(current_time, DaysPerWeek * MinutesPerDay)
    ELSE IF recurring = "monthly" THEN PlusMinutes(current_time, MonthDays * MinutesPerDay)
    ELSE IF recurring = "weekday" THEN SkipSunday(PlusMinutes(current_time, MinutesPerDay))
    ELSE None

\* send_reminder of reminder_botv4.py: next_time, from the stored time and
\* the rule (with any other rule next_time is unbound and the handler raises)
next_time_v4(current_time, recurring) ==
    IF recurring = "daily" THEN PlusMinutes(current_time, MinutesPerDay)
    ELSE IF recurring = "weekly" THEN PlusMinutes(current_time, DaysPerWeek * MinutesPerDay)
    ELSE IF recurring = "monthly" THEN PlusMinutes(current_time, MonthDays * MinutesPerDay)
    ELSE IF recurring = "weekday" THEN SkipWeekend(PlusMinutes(current_time, MinutesPerDay))
    ELSE None

\* the stored times the rules are applied to: two times of day on each day
\* of one week
TimesOfDay == {0, 540}
DueInstants == {d * MinutesPerDay + m : d \in 0..(DaysPerWeek - 1), m \in TimesOfDay}

\* the Store holds one recurring reminder
InitRecurrence ==
    /\ now = 0
    /\ \E t \in DueInstants, r \in EngineRules :
          LET remind_time == [t |-> t, aware |-> TRUE]
              reminder_id == ReminderId(1, remind_time, EmptyDict)
          IN  /\ reminders = Put(EmptyDict, reminder_id,
                                 NewReminder(1, "call mom", remind_time, r, "other",
                                             "medium", <<>>))
              /\ issued = {reminder_id}
    /\ disk = FileOf(reminders)
    /\ stats = EmptyDict
    /\ diskStats = MissingFile
    /\ jobs = EmptyBag
    /\ sent = EmptyBag
    /\ count = [create |-> 0, snooze |-> 0, complete |-> 0]
    /\ last = [op |-> "init", n |-> 0]
    /\ locks = Idle

\* the rule of reminder_botv4.py is applied to the stored time, and the new
\* time is stored (fromisoformat, the rule, isoformat, save_reminders)
ApplyRule(reminder_id) ==
    LET rdata == reminders[reminder_id]
        current_time == FromIsoFormat(rdata.time)
        next_time == next_time_v4(current_time, rdata.recurring)
    IN  /\ last.n < MaxApplied
        /\ reminders' = Put(reminders, reminder_id,
                            [rdata EXCEPT !.time = IsoFormat(next_time)])
        /\ disk' = Save(reminders', disk, "ok")
        /\ last' = [op |-> "next", n |-> last.n + 1]
        /\ UNCHANGED <<now, stats, diskStats, jobs, sent, issued, count, locks>>

\* the rule of reminder_bot.py, for the rules its extract_metadata can store
ApplyOccurrence(reminder_id) ==
    LET rdata == reminders[reminder_id]
        current_time == FromIsoFormat(rdata.time)
        next_time == NextOccurrence(current_time, rdata.recurring)
    IN  /\ last.n < MaxApplied
        /\ rdata.recurring \in RecurringValues
        /\ reminders' = Put(reminders, reminder_id,
                            [rdata EXCEPT !.time = IsoFormat(next_time)])
        /\ disk' = Save(reminders', disk, "ok")
        /\ last' = [op |-> "occurrence", n |-> last.n + 1]
        /\ UNCHANGED <<now, stats, diskStats, jobs, sent, issued, count, locks>>

NextRecurrence ==
    \/ \E id \in DOMAIN reminders : ApplyRule(id)
    \/ \E id \in DOMAIN reminders : ApplyOccurrence(id)

SpecRecurrence == InitRecurrence /\ [][NextRecurrence]_vars

----------------------------------------------------------------------------
(* parse_time.  A time expression is a list of tokens separated by white   *)
(* space: a word (its letters), a number of one or two digits, or a clock  *)
(* "h:mm" with one or two hour digits and two minute digits.  The regular  *)
(* expressions of parse_time accept "5pm" and "5 pm" alike, so a number or *)
(* clock and the word after it stand for both spellings.                   *)

Wd(w) == [k |-> "word", w |-> w, n |-> 0, m |-> 0]
Nm(n) == [k |-> "num", w |-> <<>>, n |-> n, m |-> 0]
Clk(h, m) == [k |-> "clock", w |-> <<>>, n |-> h, m |-> m]

IsPrefix(p, w) == Len(p) <= Len(w) /\ SubSeq(w, 1, Len(p)) = p
IsSuffix(p, w) == Len(p) <= Len(w) /\ SubSeq(w, Len(w) - Len(p) + 1, Len(w)) = p
\* p in w
Contains(p, w) == \E i \in 1..(Len(w) - Len(p) + 1) : SubSeq(w, i, i + Len(p) - 1) = p

\* the words of the expressions
W_at == <<"a", "t">>
W_in == <<"i", "n">>
W_after == <<"a", "f", "t", "e", "r">>
W_tomorrow == <<"t", "o", "m", "o", "r", "r", "o", "w">>
W_lunch == <<"l", "u", "n", "c", "h">>
W_dinner == <<"d", "i", "n", "n", "e", "r">>
W_morning == <<"m", "o", "r", "n", "i", "n", "g">>
W_evening == <<"e", "v", "e", "n", "i", "n", "g">>
W_am == <<"a", "m">>
W_pm == <<"p", "m">>
W_hours == <<"h", "o", "u", "r", "s">>
W_minutes == <<"m", "i", "n", "u", "t", "e", "s">>

MinutesPerHour == 60
HoursPerDay == 24
\* the hours of lunch, dinner, morning and evening, and of noon
LunchHour == 13
DinnerHour == 19
MorningHour == 9
EveningHour == 18
Noon == 12

\* the exception of datetime.replace with an hour or a minute out of range
ValueError == [t |-> -2, aware |-> FALSE]

\* current_time.replace(hour=hour, minute=minute, second=0, microsecond=0)
Replace(current_time, hour, minute) ==
    IF hour \notin 0..(HoursPerDay - 1) \/ minute \notin 0..(MinutesPerHour - 1)
    THEN ValueError
    ELSE [current_time EXCEPT !.t =
             (@ \div MinutesPerDay) * MinutesPerDay + hour * MinutesPerHour + minute]

\* a roll forward that takes the present instant itself for a future one
RollForwardStrict(remind_time, current_time, is_tomorrow) ==
    IF remind_time = ValueError THEN ValueError
    ELSE IF is_tomorrow \/ remind_time.t < current_time.t
    THEN PlusMinutes(remind_time, MinutesPerDay)
    ELSE remind_time

\* if is_tomorrow or remind_time <= current_time: remind_time += one day
RollForward(remind_time, current_time, is_tomorrow) ==
    IF remind_time = ValueError THEN ValueError
    ELSE IF is_tomorrow \/ remind_time.t <= current_time.t
    THEN PlusMinutes(remind_time, MinutesPerDay)
    ELSE remind_time

\* "word" in time_str
HasWord(ts, word) == \E i \in 1..Len(ts) : ts[i].k = "word" /\ Contains(word, ts[i].w)

\* time_str.replace("tomorrow", "").strip() (the word tomorrow stands alone)
WithoutTomorrow(ts) == SelectSeq(ts, LAMBDA x : ~(x.k = "word" /\ x.w = W_tomorrow))

\* the token at index i, a word of no letters past the end
At(ts, i) == IF i \in 1..Len(ts) THEN ts[i] ELSE Wd(<<>>)
IsUnit(x, letter) == x.k = "word" /\ IsPrefix(<<letter>>, x.w)
IsPeriod(x) == x.k = "word" /\ (IsPrefix(W_am, x.w) \/ IsPrefix(W_pm, x.w))

\* re.search of the relative pattern: the leftmost "in" or "after" that white
\* space follows; the hours group and the minutes group are taken where a
\* number and its unit follow.  0 when the pattern matches nowhere.
RelativeStart(ts) ==
    LET starts == {i \in 1..(Len(ts) - 1) :
                      /\ ts[i].k = "word"
                      /\ IsSuffix(W_in, ts[i].w) \/ IsSuffix(W_after, ts[i].w)}
    IN  IF starts = {} THEN 0 ELSE CHOOSE i \in starts : \A j \in starts : i <= j
RelativeGroups(ts) ==
    LET i == RelativeStart(ts)
        has_hours == At(ts, i + 1).k = "num" /\ IsUnit(At(ts, i + 2), "h")
        j == IF has_hours THEN i + 3 ELSE i + 1
        has_minutes == At(ts, j).k = "num" /\ IsUnit(At(ts, j + 1), "m")
    IN  [matched |-> i # 0,
         group1 |-> IF i # 0 /\ has_hours THEN <<At(ts, i + 1).n>> ELSE <<>>,
         group2 |-> IF i # 0 /\ has_minutes THEN <<At(ts, j).n>> ELSE <<>>]

\* re.search of the 12-hour pattern: the leftmost number or clock that "am"
\* or "pm" follows.  0 when the pattern matches nowhere.
TwelveHourStart(ts) ==
    LET starts == {i \in 1..(Len(ts) - 1) :
                      ts[i].k \in {"num", "clock"} /\ IsPeriod(ts[i + 1])}
    IN  IF starts = {} THEN 0 ELSE CHOOSE i \in starts : \A j \in starts : i <= j

\* re.search of the 24-hour pattern: the leftmost "at" that a clock follows,
\* when neither "am" nor "pm" follows the clock.  0 when there is none.
TwentyFourHourStart(ts) ==
    LET starts == {i \in 1..(Len(ts) - 1) :
                      /\ ts[i].k = "word" /\ IsSuffix(W_at, ts[i].w)
                      /\ ts[i + 1].k = "clock"
                      /\ ~IsPeriod(At(ts, i + 2))}
    IN  IF starts = {} THEN 0 ELSE CHOOSE i \in starts : \A j \in starts : i <= j

\* no pattern of the family matches: parse_time goes on to the next family
NoMatch == [t |-> -3, aware |-> FALSE]

\* "lunch", "dinner", "morning", "evening" in time_str; lunch and dinner do
\* not look at is_tomorrow
KeywordFamily(ts, current_time, is_tomorrow) ==
    IF HasWord(ts, W_lunch)
    THEN RollForward(Replace(current_time, LunchHour, 0), current_time, FALSE)
    ELSE IF HasWord(ts, W_dinner)
    THEN RollForward(Replace(current_time, DinnerHour, 0), current_time, FALSE)
    ELSE IF HasWord(ts, W_morning)
    THEN RollForward(Replace(current_time, MorningHour, 0), current_time, is_tomorrow)
    ELSE IF HasWord(ts, W_evening)
    THEN RollForward(Replace(current_time, EveningHour, 0), current_time, is_tomorrow)
    ELSE NoMatch

\* a test that takes a match without hours and minutes for a duration
RelativeMatchesAlways(rel) == rel.matched

\* if match and (match.group(1) or match.group(2))
RelativeMatches(rel) == rel.matched /\ (rel.group1 # <<>> \/ rel.group2 # <<>>)

RelativeFamily(ts, current_time) ==
    LET rel == RelativeGroups(ts)
        hours == IF rel.group1 # <<>> THEN rel.group1[1] ELSE 0
        minutes == IF rel.group2 # <<>> THEN rel.group2[1] ELSE 0
    IN  IF RelativeMatches(rel)
        THEN PlusMinutes(current_time, hours * MinutesPerHour + minutes)
        ELSE NoMatch

\* a 12-hour clock that leaves 12 am at hour 12
TwelveHourFamilyNoMidnight(ts, current_time, is_tomorrow) ==
    LET i == TwelveHourStart(ts)
        hour0 == ts[i].n
        minute == IF ts[i].k = "clock" THEN ts[i].m ELSE 0
        period == IF IsPrefix(W_pm, ts[i + 1].w) THEN W_pm ELSE W_am
        hour == IF period = W_pm /\ hour0 # Noon THEN hour0 + Noon ELSE hour0
    IN  IF i # 0
        THEN RollForward(Replace(current_time, hour, minute), current_time, is_tomorrow)
        ELSE NoMatch

\* the 12-hour pattern: pm adds 12 to an hour other than 12, 12 am is hour 0
TwelveHourFamily(ts, current_time, is_tomorrow) ==
    LET i == TwelveHourStart(ts)
        hour0 == ts[i].n
        minute == IF ts[i].k = "clock" THEN ts[i].m ELSE 0
        period == IF IsPrefix(W_pm, ts[i + 1].w) THEN W_pm ELSE W_am
        hour == IF period = W_pm /\ hour0 # Noon THEN hour0 + Noon
                ELSE IF period = W_am /\ hour0 = Noon THEN 0
                ELSE hour0
    IN  IF i # 0
        THEN RollForward(Replace(current_time, hour, minute), current_time, is_tomorrow)
        ELSE NoMatch

TwentyFourHourFamily(ts, current_time, is_tomorrow) ==
    LET i == TwentyFourHourStart(ts)
    IN  IF i # 0
        THEN RollForward(Replace(current_time, ts[i + 1].n, ts[i + 1].m),
                         current_time, is_tomorrow)
        ELSE NoMatch

\* the outcome of the first family that matches (a datetime it returns or an
\* exception it raises), None when none does
RECURSIVE FirstMatch(_)
FirstMatch(results) ==
    IF results = <<>> THEN None
    ELSE IF Head(results) # NoMatch THEN Head(results)
    ELSE FirstMatch(Tail(results))

\* a parse_time that tries the 12-hour clock before the relative offset
parse_time_clock_first(time_str, reference) ==
    LET is_tomorrow == HasWord(time_str, W_tomorrow)
        ts == WithoutTomorrow(time_str)
        current_time == IF reference.aware THEN reference ELSE Localize(reference)
    IN  FirstMatch(<<KeywordFamily(ts, current_time, is_tomorrow),
                     TwelveHourFamily(ts, current_time, is_tomorrow),
                     RelativeFamily(ts, current_time),
                     TwentyFourHourFamily(ts, current_time, is_tomorrow)>>)

\* parse_time(time_str, current_time): a datetime, None, or ValueError raised
parse_time(time_str, reference) ==
    LET is_tomorrow == HasWord(time_str, W_tomorrow)
        ts == WithoutTomorrow(time_str)
        current_time == IF reference.aware THEN reference ELSE Localize(reference)
    IN  FirstMatch(<<KeywordFamily(ts, current_time, is_tomorrow),
                     RelativeFamily(ts, current_time),
                     TwelveHourFamily(ts, current_time, is_tomorrow),
                     TwentyFourHourFamily(ts, current_time, is_tomorrow)>>)

\* the tokens the expressions are made of, and the expressions
Alphabet ==
    {Wd(W_at), Wd(W_in), Wd(W_tomorrow), Wd(W_lunch), Wd(W_morning), Wd(W_am), Wd(W_pm),
     Wd(W_hours), Wd(W_minutes), Nm(5), Nm(12), Clk(9, 30)}
\* one expression of each shape: a named moment, a relative offset of hours,
\* of minutes and of both, a 12-hour clock and a 24-hour clock
Shapes ==
    {<<Wd(W_lunch)>>, <<Wd(W_morning)>>,
     <<Wd(W_in), Nm(5), Wd(W_hours)>>, <<Wd(W_in), Nm(12), Wd(W_minutes)>>,
     <<Wd(W_in), Nm(5), Wd(W_hours), Nm(12), Wd(W_minutes)>>,
     <<Nm(5), Wd(W_pm)>>, <<Wd(W_at), Clk(9, 30), Wd(W_am)>>,
     <<Wd(W_at), Clk(9, 30)>>}
\* clock expressions the patterns match whose digits name no time of day:
\* "13 pm", "at 25:00", "at 9:75"
OutOfRange ==
    {<<Nm(13), Wd(W_pm)>>, <<Wd(W_at), Clk(25, 0)>>, <<Wd(W_at), Clk(9, 75)>>}
\* every list of at most MaxTokens tokens, and every two shapes in a row, with
\* and without "tomorrow" at the end, and the clocks out of range
Expressions ==
    UNION {[1..n -> Alphabet] : n \in 1..MaxTokens}
        \cup Shapes \cup OutOfRange \cup {a \o b : a, b \in Shapes}
        \cup {a \o <<Wd(W_tomorrow)>> : a \in Shapes}
        \cup {a \o b \o <<Wd(W_tomorrow)>> : a, b \in Shapes}
\* the reference instants: 08:00, 13:00 and 17:00 of day 0
References == {480, 780, 1020}

InitParse ==
    /\ now \in References
    /\ reminders = EmptyDict
    /\ stats = EmptyDict
    /\ disk = MissingFile
    /\ diskStats = MissingFile
    /\ jobs = EmptyBag
    /\ sent = EmptyBag
    /\ issued = {}
    /\ count = [create |-> 0, snooze |-> 0, complete |-> 0]
    /\ last = [op |-> "init"]
    /\ locks = Idle

\* parse_time is applied to an expression, with get_current_time as reference
Resolve(time_str) ==
    /\ last.op = "init"
    /\ last' = [op |-> "parse", expr |-> time_str, ret |-> parse_time(time_str, NowAware)]
    /\ UNCHANGED <<now, reminders, stats, disk, diskStats, jobs, sent, issued,
                   count, locks>>

\* one expression is resolved in each run
NextParse == last.op = "init" /\ \E time_str \in Expressions : Resolve(time_str)

SpecParse == InitParse /\ [][NextParse]_vars

----------------------------------------------------------------------------
(* extract_metadata and extract_task_and_time: a message text is a list of *)
(* tokens, the words white space separates.  Besides the words, numbers    *)
(* and clocks of a time expression a token is a #tag, a !tag, an @name or  *)
(* the "--" that starts a note.  Where text.replace takes a token out, the *)
(* white space on both sides stays: the token becomes the empty word.      *)

Hash(w) == [k |-> "hash", w |-> w, n |-> 0, m |-> 0]
Bang(w) == [k |-> "bang", w |-> w, n |-> 0, m |-> 0]
Mention(w) == [k |-> "mention", w |-> w, n |-> 0, m |-> 0]
Dash == [k |-> "dash", w |-> <<>>, n |-> 0, m |-> 0]
Gap == Wd(<<>>)

W_call == <<"c", "a", "l", "l">>
W_mom == <<"m", "o", "m">>
W_remind == <<"r", "e", "m", "i", "n", "d">>
W_me == <<"m", "e">>
W_to == <<"t", "o">>
W_send == <<"s", "e", "n", "d">>
W_a == <<"a">>
W_tell == <<"t", "e", "l", "l">>
W_ping == <<"p", "i", "n", "g">>
W_about == <<"a", "b", "o", "u", "t">>
W_alert == <<"a", "l", "e", "r", "t">>
W_every == <<"e", "v", "e", "r", "y">>
W_day == <<"d", "a", "y">>
W_week == <<"w", "e", "e", "k">>
W_weekday == <<"w", "e", "e", "k", "d", "a", "y">>
W_daily == <<"d", "a", "i", "l", "y">>
W_weekly == <<"w", "e", "e", "k", "l", "y">>
W_monday == <<"m", "o", "n", "d", "a", "y">>
W_work == <<"w", "o", "r", "k">>
W_bogus == <<"b", "o", "g", "u", "s">>
W_high == <<"h", "i", "g", "h">>
W_urgent == <<"u", "r", "g", "e", "n", "t">>
W_medium == <<"m", "e", "d", "i", "u", "m">>
W_other == <<"o", "t", "h", "e", "r">>
W_bob == <<"b", "o", "b">>
W_Work == <<"W", "o", "r", "k">>

\* CATEGORIES (the keys) and PRIORITIES (the keys, in the order of the
\* pattern high|medium|low)
CATEGORIES ==
    {<<"w", "o", "r", "k">>,
     <<"p", "e", "r", "s", "o", "n", "a", "l">>,
     <<"h", "e", "a", "l", "t", "h">>,
     <<"s", "h", "o", "p", "p", "i", "n", "g">>,
     <<"f", "i", "t", "n", "e", "s", "s">>,
     <<"f", "a", "m", "i", "l", "y">>,
     <<"f", "i", "n", "a", "n", "c", "e">>,
     <<"e", "d", "u", "c", "a", "t", "i", "o", "n">>,
     <<"o", "t", "h", "e", "r">>}
PRIORITIES == <<W_high, W_medium, <<"l", "o", "w">>>>
DayNames ==
    {<<"m", "o", "n", "d", "a", "y">>,
     <<"t", "u", "e", "s", "d", "a", "y">>,
     <<"w", "e", "d", "n", "e", "s", "d", "a", "y">>,
     <<"t", "h", "u", "r", "s", "d", "a", "y">>,
     <<"f", "r", "i", "d", "a", "y">>,
     <<"s", "a", "t", "u", "r", "d", "a", "y">>,
     <<"s", "u", "n", "d", "a", "y">>}

\* str.lower(), for the capital letters the messages are written with
LowerChar(c) == IF c = "W" THEN "w" ELSE c
Lower(w) == [i \in 1..Len(w) |-> LowerChar(w[i])]

\* the text of a word, of a token and of a list of tokens
RECURSIVE Str(_)
Str(w) == IF w = <<>> THEN "" ELSE Head(w) \o Str(Tail(w))
TwoDigits(n) == IF n < 10 THEN "0" \o ToString(n) ELSE ToString(n)
Render(x) ==
    CASE x.k = "word" -> Str(x.w)
      [] x.k = "hash" -> "#" \o Str(x.w)
      [] x.k = "bang" -> "!" \o Str(x.w)
      [] x.k = "mention" -> "@" \o Str(x.w)
      [] x.k = "dash" -> "--"
      [] x.k = "num" -> ToString(x.n)
      [] x.k = "clock" -> ToString(x.n) \o ":" \o TwoDigits(x.m)
RECURSIVE Join(_)
Join(ts) ==
    IF ts = <<>> THEN ""
    ELSE IF Len(ts) = 1 THEN Render(ts[1])
    ELSE Render(Head(ts)) \o " " \o Join(Tail(ts))

\* str.strip(): the white space at both ends goes
RECURSIVE Strip(_)
Strip(ts) ==
    IF ts = <<>> THEN ts
    ELSE IF Head(ts) = Gap THEN Strip(Tail(ts))
    ELSE IF ts[Len(ts)] = Gap THEN Strip(SubSeq(ts, 1, Len(ts) - 1))
    ELSE ts

\* the least index in 1..Len(ts) that Test holds of, 0 when there is none
First(ts, Test(_)) ==
    LET found == {i \in 1..Len(ts) : Test(i)}
    IN  IF found = {} THEN 0 ELSE CHOOSE i \in found : \A j \in found : i <= j
\* the next token after index i that is not white space, 0 when none is
Nxt(ts, i) == First(ts, LAMBDA j : j > i /\ ts[j] # Gap)

\* text.replace(tag, ''): the tag goes wherever it stands, also at the head
\* of a longer tag
Without(ts, tag) ==
    [i \in 1..Len(ts) |->
        IF ts[i].k = tag.k /\ IsPrefix(tag.w, ts[i].w)
        THEN Wd(SubSeq(ts[i].w, Len(tag.w) + 1, Len(ts[i].w)))
        ELSE ts[i]]

\* the group of !(high|medium|low), re.IGNORECASE, at a "!": <<>> when the
\* pattern does not match there
PriorityAt(w) ==
    LET i == First(PRIORITIES, LAMBDA j : IsPrefix(PRIORITIES[j], Lower(w)))
    IN  IF i = 0 THEN <<>> ELSE PRIORITIES[i]

\* "<a> <b>" in text.lower(): a word ends with a, one space, the next begins
\* with b
InText(ts, a, b) ==
    \E i \in 1..(Len(ts) - 1) :
        /\ ts[i].k \notin {"num", "clock", "dash"}
        /\ IsSuffix(a, Lower(ts[i].w))
        /\ ts[i + 1].k = "word" /\ IsPrefix(b, Lower(ts[i + 1].w))
\* "<a>" in text.lower()
InWord(ts, a) ==
    \E i \in 1..Len(ts) : ts[i].k \notin {"num", "clock", "dash"} /\ Contains(a, Lower(ts[i].w))
\* re.search(r'every\s+(monday|...|sunday)', text.lower())
EveryDayName(ts) ==
    \E i \in 1..(Len(ts) - 1) :
        /\ ts[i].k \notin {"num", "clock", "dash"}
        /\ IsSuffix(W_every, Lower(ts[i].w))
        /\ Nxt(ts, i) # 0
        /\ ts[Nxt(ts, i)].k = "word"
        /\ \E d \in DayNames : IsPrefix(d, Lower(ts[Nxt(ts, i)].w))

\* the recurring pattern of extract_metadata; "none" is Python's None
RecurringOf(ts) ==
    IF InText(ts, W_every, W_day) \/ InWord(ts, W_daily) THEN "daily"
    ELSE IF InText(ts, W_every, W_week) \/ InWord(ts, W_weekly) THEN "weekly"
    ELSE IF EveryDayName(ts) THEN "weekly"
    ELSE "none"

\* an extract_metadata that takes every tag for a category
extract_metadata_any_tag(text) ==
    LET cat == First(text, LAMBDA i : text[i].k = "hash")
    IN  [text |-> Strip(text),
         category |-> IF cat # 0 THEN Str(Lower(text[cat].w)) ELSE "other",
         priority |-> "medium", recurring |-> "none", shared_with |-> <<>>]

\* Stmt applied to the value of v: the statements of a function run one
\* after the other, each on what the one before it left
Then(v, Stmt(_)) == CHOOSE r \in {Stmt(x) : x \in {v}} : TRUE

\* the local variables of extract_metadata before its first statement
\* ("none" is Python's None; the notes are kept nowhere the model looks)
Locals(text) ==
    [text |-> text, category |-> "other", priority |-> "medium",
     recurring |-> "none", shared_with |-> <<>>]

\* cat_match: the first #tag; it counts when it names a category
TakeCategory(m) ==
    LET cat == First(m.text, LAMBDA i : m.text[i].k = "hash")
    IN  IF cat # 0 /\ Lower(m.text[cat].w) \in CATEGORIES
        THEN [m EXCEPT !.category = Str(Lower(m.text[cat].w)),
                       !.text = Without(m.text, m.text[cat])]
        ELSE m

\* pri_match: the first !high, !medium or !low
TakePriority(m) ==
    LET pri == First(m.text, LAMBDA i : m.text[i].k = "bang" /\ PriorityAt(m.text[i].w) # <<>>)
        group == PriorityAt(m.text[pri].w)
    IN  IF pri # 0
        THEN [m EXCEPT !.priority = Str(group),
                       !.text = Without(m.text, Bang(SubSeq(m.text[pri].w, 1, Len(group))))]
        ELSE m

\* notes_match: "--" and a note after it, up to a " #", a " !" or the end
TakeNotes(m) ==
    LET dash == First(m.text, LAMBDA i : m.text[i].k = "dash" /\ i < Len(m.text))
        note == Nxt(m.text, dash)
        stop == First(m.text, LAMBDA i : /\ dash # 0 /\ note # 0 /\ i > note
                                          /\ m.text[i].k \in {"hash", "bang"})
    IN  IF dash = 0 THEN m
        ELSE IF stop = 0 THEN [m EXCEPT !.text = SubSeq(m.text, 1, dash - 1)]
        ELSE [m EXCEPT !.text = SubSeq(m.text, 1, dash - 1) \o <<Wd(m.text[stop].w)>>
                                    \o SubSeq(m.text, stop + 1, Len(m.text))]

TakeRecurring(m) == [m EXCEPT !.recurring = RecurringOf(m.text)]

\* shared_matches: every @name, in the order of the text
TakeShares(m) ==
    LET names == SelectSeq(m.text, LAMBDA x : x.k = "mention")
    IN  [m EXCEPT !.shared_with = [i \in 1..Len(names) |-> PyStr(Str(names[i].w))],
                  !.text = [i \in 1..Len(m.text) |->
                               IF m.text[i].k = "mention" THEN Gap ELSE m.text[i]]]

\* extract_metadata(text): the cleaned text, the category, the priority, the
\* recurrence and the user names
extract_metadata(text) ==
    LET m == Then(Then(Then(Then(Then(Locals(text), TakeCategory), TakePriority),
                            TakeNotes), TakeRecurring), TakeShares)
    IN  [m EXCEPT !.text = Strip(m.text)]

\* the trigger patterns, in their order: the words each must have and the
\* words it may go on with
Triggers ==
    <<[must |-> <<W_remind, W_me, W_to>>, may |-> {}],
      [must |-> <<W_send, W_me>>, may |-> {W_a}],
      [must |-> <<W_tell, W_me>>, may |-> {W_to}],
      [must |-> <<W_ping, W_me>>, may |-> {W_about, W_to}],
      [must |-> <<W_alert, W_me>>, may |-> {W_about, W_to}]>>

\* the words ws stand at index i and after it, with white space after each:
\* the index of the last of them, 0 when they do not stand there
RECURSIVE WordsAt(_, _, _)
WordsAt(ts, i, ws) ==
    IF i = 0 \/ Nxt(ts, i) = 0 THEN 0
    ELSE IF ~(ts[i].k = "word" /\ Lower(ts[i].w) = Head(ws)) THEN 0
    ELSE IF Len(ws) = 1 THEN i
    ELSE WordsAt(ts, Nxt(ts, i), Tail(ws))

\* re.search(trigger, text_lower): the index where after_trigger begins, 0
\* when the trigger matches nowhere.  The first word may be the end of a
\* longer one.
AfterTrigger(ts, trigger) ==
    LET ends(i) == IF ts[i].k \in {"num", "clock", "dash"} THEN 0
                   ELSE IF ~IsSuffix(Head(trigger.must), Lower(ts[i].w)) THEN 0
                   ELSE WordsAt(ts, Nxt(ts, i), Tail(trigger.must))
        start == First(ts, LAMBDA i : ends(i) # 0)
        more == Nxt(ts, ends(start))
    IN  IF start = 0 THEN 0
        ELSE IF \E w \in trigger.may : WordsAt(ts, more, <<w>>) # 0
        THEN Nxt(ts, more)
        ELSE more

\* re.search(r'\s+(?:at|in|after)\s+', ...): the index of the first "at",
\* "in" or "after" with white space before and after it, 0 when none is
TimeStart(ts) ==
    First(ts, LAMBDA i : /\ 1 < i /\ i < Len(ts)
                          /\ ts[i].k = "word"
                          /\ Lower(ts[i].w) \in {W_at, W_in, W_after})

\* (None, None)
NoTask == [task |-> <<>>, time_str |-> <<>>]

\* the split of after_trigger at its first time word
SplitAt(after_trigger) ==
    LET time_match == TimeStart(after_trigger)
    IN  IF time_match = 0 THEN NoTask
        ELSE [task |-> Strip(SubSeq(after_trigger, 1, time_match - 1)),
              time_str |-> Strip(SubSeq(after_trigger, time_match, Len(after_trigger)))]

\* the loop over the triggers, from index n on: the first trigger that
\* matches with a time word after it gives the split
RECURSIVE SplitAfterTrigger(_, _)
SplitAfterTrigger(text, n) ==
    IF n > Len(Triggers) THEN NoTask
    ELSE LET split == Then(AfterTrigger(text, Triggers[n]),
                           LAMBDA from : IF from = 0 THEN NoTask
                                         ELSE Then(SubSeq(text, from, Len(text)), SplitAt))
         IN  IF split # NoTask THEN split ELSE SplitAfterTrigger(text, n + 1)

\* extract_task_and_time(text): the task and the time expression
extract_task_and_time(text) ==
    LET with_trigger == SplitAfterTrigger(text, 1)
        time_match == TimeStart(text)
        task == Strip(SubSeq(text, 1, time_match - 1))
    IN  IF with_trigger # NoTask THEN with_trigger
        ELSE IF time_match # 0 /\ task # <<>>
        THEN [task |-> task, time_str |-> Strip(SubSeq(text, time_match, Len(text)))]
        ELSE NoTask

\* the messages: a task, with or without the trigger "remind me to", tags
\* and a time expression.  The tags stand between the task and the time,
\* after the time or before the task; a message without tags has each of
\* the time expressions.
TaskInputs ==
    {<<>>, <<Wd(W_call), Wd(W_mom)>>, <<Wd(W_remind), Wd(W_me), Wd(W_to), Wd(W_call)>>}
TagInputs ==
    {<<>>, <<Hash(W_work)>>, <<Hash(W_Work)>>, <<Hash(W_bogus)>>,
     <<Hash(W_bogus), Hash(W_work)>>, <<Bang(W_high)>>, <<Bang(W_urgent)>>,
     <<Hash(W_work), Bang(W_high)>>, <<Mention(W_bob)>>, <<Dash, Wd(W_mom)>>,
     <<Wd(W_every), Wd(W_day)>>, <<Wd(W_daily)>>, <<Wd(W_every), Wd(W_week)>>,
     <<Wd(W_every), Wd(W_weekday)>>, <<Wd(W_every), Wd(W_monday)>>}
TimeInputs ==
    {<<>>, <<Wd(W_in), Nm(5), Wd(W_minutes)>>, <<Wd(W_at), Nm(5), Wd(W_pm)>>,
     <<Wd(W_at), Wd(W_lunch)>>, <<Wd(W_at), Clk(25, 0)>>}
InFiveMinutes == <<Wd(W_in), Nm(5), Wd(W_minutes)>>
Texts ==
    {text \in {a \o g \o InFiveMinutes : a \in TaskInputs, g \in TagInputs}
                \cup {a \o InFiveMinutes \o g : a \in TaskInputs, g \in TagInputs}
                \cup {g \o a \o InFiveMinutes : a \in TaskInputs, g \in TagInputs}
                \cup {a \o t : a \in TaskInputs, t \in TimeInputs} :
        text # <<>>}

\* handle_message, from the text of the message on: extract_metadata,
\* extract_task_and_time, parse_time, then add_reminder and run_once.  The
\* ValueError of parse_time leaves the handler.
handle_text(chat_id, text, w1, w2) ==
    \E meta \in {extract_metadata(text)} :
    \E split \in {extract_task_and_time(meta.text)} :
    \E time_str \in {SelectSeq(split.time_str, LAMBDA x : x # Gap)} :
    \E remind_time \in {parse_time(time_str, NowAware)} :
        LET current_time == NowAware
            same == UNCHANGED <<now, reminders, stats, disk, diskStats, jobs, sent,
                                issued, count>>
        IN  IF split = NoTask
            THEN last' = [op |-> "not_understood"] /\ same
            ELSE IF remind_time = ValueError
            THEN last' = [op |-> "raised"] /\ same
            ELSE IF remind_time = None \/ PastTime(remind_time, current_time)
            THEN last' = [op |-> "rejected", time |-> remind_time] /\ same
            ELSE AddAndArm(chat_id, Join(split.task), remind_time, current_time,
                           meta.recurring, meta.category, meta.priority,
                           meta.shared_with, w1, w2, "create")

\* extract_metadata is applied to a text, and extract_task_and_time to the
\* text it cleaned
Extract(text) ==
    /\ \E meta \in {extract_metadata(text)} :
           last' = [op |-> "metadata", text |-> text, ret |-> meta,
                    split |-> extract_task_and_time(meta.text)]
    /\ UNCHANGED <<now, reminders, stats, disk, diskStats, jobs, sent, issued,
                   count, locks>>

\* The messages alone: a user sends texts and completes reminders; the
\* metadata of one text is looked at in each run.
NextTexts ==
    \/ last.op = "init" /\ \E text \in Texts : Extract(text)
    \/ \E c \in Chats, text \in Texts :
          /\ count.create < MaxCreated
          /\ handle_text(c, text, "ok", "ok")
          /\ UNCHANGED locks
    \/ \E id \in issued : button_complete(id, "ok", "ok") /\ UNCHANGED locks

\* the messages are sent at 08:00
InitTexts == InitParse /\ now = 480

SpecTexts == InitTexts /\ [][NextTexts]_vars

----------------------------------------------------------------------------
(* The Store operations, statement by statement.  A Store operation is a   *)
(* list of steps: a change of a dictionary in memory, and the three steps  *)
(* of each _save: "with file_locks[key]" takes the lock, open / json.dump  *)
(* write the file, the end of the with block gives the lock back.          *)

StepOf(k, key, what, id, arg) ==
    [k |-> k, key |-> key, what |-> what, id |-> id, arg |-> arg]

\* a _save that writes the file without taking the lock
SaveStepsUnlocked(key) == <<StepOf("write", key, "", <<>>, 0)>>

\* _save(data, key)
SaveSteps(key) ==
    <<StepOf("acquire", key, "", <<>>, 0), StepOf("write", key, "", <<>>, 0),
      StepOf("release", key, "", <<>>, 0)>>

\* update_stats(chat_id, action)
StatsSteps(chat_id, action) ==
    <<StepOf("mutate", "stats", action, chat_id, 0)>> \o SaveSteps("stats")

\* the change of self.data.reminders a step makes
Changed(store, st) ==
    IF st.what = "add" THEN Put(store, st.id, st.arg)
    ELSE IF st.what = "snooze"
    THEN Put(store, st.id,
             [store[st.id] EXCEPT !.time =
                 IsoFormat(snooze_reminder(FromIsoFormat(@), st.arg))])
    ELSE IF st.what = "complete" THEN complete_reminder(store, st.id)
    ELSE delete_reminder(store, st.id)

\* add_reminder is called (by handle_message: the time is aware and later
\* than the present instant)
StartAdd(chat_id, message, t, recurring, category, priority) ==
    LET remind_time == [t |-> t, aware |-> TRUE]
        reminder_id == ReminderId(chat_id, remind_time, reminders)
    IN  /\ locks.todo = <<>>
        /\ count.create < MaxCreated
        /\ t > now
        /\ locks' = [locks EXCEPT !.todo =
               <<StepOf("mutate", "reminders", "add", reminder_id,
                        NewReminder(chat_id, message, remind_time, recurring,
                                    category, priority, <<>>))>>
                   \o SaveSteps("reminders") \o StatsSteps(chat_id, "created")]
        /\ issued' = issued \cup {reminder_id}
        /\ count' = [count EXCEPT !.create = @ + 1]
        /\ UNCHANGED <<now, reminders, stats, disk, diskStats, jobs, sent, last>>

\* snooze_reminder is called on a stored id, update_stats follows
StartSnooze(reminder_id, minutes) ==
    /\ locks.todo = <<>>
    /\ reminder_id \in DOMAIN reminders
    /\ count.snooze < MaxSnoozed
    /\ locks' = [locks EXCEPT !.todo =
           <<StepOf("mutate", "reminders", "snooze", reminder_id, minutes)>>
               \o SaveSteps("reminders")
               \o StatsSteps(reminders[reminder_id].chat_id, "snoozed")]
    /\ count' = [count EXCEPT !.snooze = @ + 1]
    /\ UNCHANGED <<now, reminders, stats, disk, diskStats, jobs, sent, issued, last>>

\* complete_reminder is called on a stored id; update_xp (the xp is not
\* modelled) saves stats.json once more
StartComplete(reminder_id) ==
    /\ locks.todo = <<>>
    /\ reminder_id \in DOMAIN reminders
    /\ count.complete < MaxCompleted
    /\ locks' = [locks EXCEPT !.todo =
           <<StepOf("mutate", "reminders", "complete", reminder_id, 0)>>
               \o SaveSteps("reminders")
               \o StatsSteps(reminders[reminder_id].chat_id, "completed")
               \o SaveSteps("stats")]
    /\ count' = [count EXCEPT !.complete = @ + 1]
    /\ UNCHANGED <<now, reminders, stats, disk, diskStats, jobs, sent, issued, last>>

\* delete_reminder is called on a stored id
StartDelete(reminder_id) ==
    /\ locks.todo = <<>>
    /\ reminder_id \in DOMAIN reminders
    /\ locks' = [locks EXCEPT !.todo =
           <<StepOf("mutate", "reminders", "delete", reminder_id, 0)>>
               \o SaveSteps("reminders")]
    /\ UNCHANGED <<now, reminders, stats, disk, diskStats, jobs, sent, issued,
                   count, last>>

NextStep == Head(locks.todo)

\* the dictionary is changed in memory
Mutate ==
    /\ locks.todo # <<>> /\ NextStep.k = "mutate"
    /\ IF NextStep.key = "reminders"
       THEN reminders' = Changed(reminders, NextStep) /\ stats' = stats
       ELSE stats' = update_stats(stats, NextStep.id, NextStep.what)
                /\ reminders' = reminders
    /\ locks' = [locks EXCEPT !.todo = Tail(@)]
    /\ UNCHANGED <<now, disk, diskStats, jobs, sent, issued, count, last>>

\* with file_locks[key]: the lock is taken when it is free
Acquire ==
    /\ locks.todo # <<>> /\ NextStep.k = "acquire"
    /\ NextStep.key \notin locks.held
    /\ locks' = [held |-> locks.held \cup {NextStep.key}, todo |-> Tail(locks.todo)]
    /\ UNCHANGED <<now, reminders, stats, disk, diskStats, jobs, sent, issued,
                   count, last>>

\* open(.., 'w') and json.dump, with the outcome w
Write(w) ==
    /\ locks.todo # <<>> /\ NextStep.k = "write"
    /\ IF NextStep.key = "reminders"
       THEN disk' = Save(reminders, disk, w) /\ diskStats' = diskStats
       ELSE diskStats' = Save(stats, diskStats, w) /\ disk' = disk
    /\ locks' = [locks EXCEPT !.todo = Tail(@)]
    /\ UNCHANGED <<now, reminders, stats, jobs, sent, issued, count, last>>

\* the with block ends (also when open or json.dump raised)
Release ==
    /\ locks.todo # <<>> /\ NextStep.k = "release"
    /\ locks' = [held |-> locks.held \ {NextStep.key}, todo |-> Tail(locks.todo)]
    /\ UNCHANGED <<now, reminders, stats, disk, diskStats, jobs, sent, issued,
                   count, last>>

\* (whether the reminder recurs plays no part in a Store operation)
NextLocks ==
    \/ \E c \in Chats, m \in Messages, t \in ClockTimes, r \in {"none"},
          g \in CategoryValues, p \in PriorityValues :
          StartAdd(c, m, t, r, g, p)
    \/ \E id \in issued, n \in SnoozeInputs : StartSnooze(id, n)
    \/ \E id \in issued : StartComplete(id)
    \/ \E id \in issued : StartDelete(id)
    \/ Mutate
    \/ Acquire
    \/ \E w \in WriteOutcomes : Write(w)
    \/ Release

SpecLocks == Init /\ [][NextLocks]_vars

----------------------------------------------------------------------------
(* Scheduler properties *)

Due(id) == FromIsoFormat(reminders[id].time).t
Pending(store, id) == id \in DOMAIN store /\ ~store[id].completed
Recurs(store, id) == id \in DOMAIN store /\ store[id].recurring # "none"
DueIn(store, id) == FromIsoFormat(store[id].time).t
OneStep(recurring) == IF recurring = "weekly" THEN DaysPerWeek * MinutesPerDay
                      ELSE MinutesPerDay
Fired(id) == last'.op = "fire" /\ last'.id = id
Restarted == last'.op = "restart"
Created(id) == last'.op \in {"create", "template"} /\ last'.id = id

\* C1: in every reachable state at most one timer is armed for any single
\* reminder id.
C1_AtMostOneTimerPerId == \A id \in issued : ArmedCount(id) <= 1

\* C2: when a timer fires for an id that is not in the Store, the fire
\* handler delivers nothing and changes no state.
C2_AbsentFireDoesNothing ==
    [][\A id \in issued :
          (Fired(id) /\ id \notin DOMAIN reminders)
              => /\ sent' = sent
                 /\ reminders' = reminders
                 /\ stats' = stats]_vars

\* C3: after Delete(id) has returned true the Store holds no record for id
\* and no timer for id remains armed.
C3_DeleteLeavesNoRecordNoTimer ==
    (last.op = "delete" /\ last.ret)
        => (last.id \notin DOMAIN reminders /\ ArmedCount(last.id) = 0)

\* C4: after reschedule-on-startup, every non-completed reminder in the Store
\* whose due_at is later than the startup instant has a timer armed to fire
\* at its due_at.
C4_RestartArmsFutureReminders ==
    last.op = "restart"
        => \A id \in DOMAIN reminders :
              (Pending(reminders, id) /\ Due(id) > now)
                  => \E j \in JobsFor(id) : j.at = Due(id)

\* C5: on restart a recurring reminder whose due_at is already past is fired
\* at once and re-armed for its next occurrence; it is not left in the Store
\* without an armed timer.
C5_RestartResumesOverdueRecurring ==
    [][Restarted =>
          \A id \in DOMAIN Load(disk) :
              (Pending(Load(disk), id) /\ Recurs(Load(disk), id)
                 /\ DueIn(Load(disk), id) <= now)
                  => /\ id \in DOMAIN reminders'
                     /\ sent' # sent
                     /\ \E j \in BagToSet(jobs') :
                           /\ j.reminder_id = id
                           /\ j.at = DueIn(reminders', id)
                           /\ j.at > DueIn(Load(disk), id)]_vars

\* C6: on restart every non-recurring pending reminder whose due_at is at or
\* before the startup instant is removed from the Store and is not delivered.
C6_RestartPurgesOverdueOneShot ==
    [][Restarted =>
          \A id \in DOMAIN Load(disk) :
              (Pending(Load(disk), id) /\ ~Recurs(Load(disk), id)
                 /\ DueIn(Load(disk), id) <= now)
                  => /\ id \notin DOMAIN reminders'
                     /\ sent' = sent
                     /\ \A j \in BagToSet(jobs') : j.reminder_id # id]_vars

\* C7: a newly created reminder never receives an id that is in the Store or
\* that was issued earlier, so a creation never overwrites a record.
C7_IdsAreNeverReused ==
    [][\A id \in issued' :
          Created(id) => (id \notin issued /\ id \notin DOMAIN reminders)]_vars

\* C8: each armed timer of a reminder in the Store is set to fire at the
\* due_at stored for that reminder.
C8_TimersFireAtStoredDue ==
    \A j \in BagToSet(jobs) :
        j.reminder_id \in DOMAIN reminders => j.at = Due(j.reminder_id)

\* C9: when a timer fires for a recurring reminder in the Store, the stored
\* due_at advances by exactly one recurrence step, the delivery is emitted and
\* a timer is armed for the new due_at when the handler returns.
C9_RecurringFireAdvancesAndRearms ==
    [][\A id \in DOMAIN reminders :
          (Fired(id) /\ Recurs(reminders, id))
              => /\ id \in DOMAIN reminders'
                 /\ DueIn(reminders', id)
                        = Due(id) + OneStep(reminders[id].recurring)
                 /\ sent' # sent
                 /\ \E j \in BagToSet(jobs') :
                       j.reminder_id = id /\ j.at = DueIn(reminders', id)]_vars

\* C10: Snooze(id, minutes) on an id in the Store sets the stored due_at to
\* the previously stored due_at plus minutes, writes the collection out and
\* returns the new due_at; the other records are left as they were.
C10_SnoozeAddsMinutesToStoredDue ==
    [][\A id \in DOMAIN reminders :
          (last'.op = "snooze" /\ last'.id = id)
              => /\ id \in DOMAIN reminders'
                 /\ DueIn(reminders', id) = Due(id) + last'.minutes
                 /\ last'.ret = FromIsoFormat(reminders'[id].time)
                 /\ last'.ret.aware = FromIsoFormat(reminders[id].time).aware
                 /\ disk' = FileOf(reminders')
                 /\ reminders' = [reminders EXCEPT ![id].time = reminders'[id].time]]_vars

\* a snooze of a reminder in the Store has returned a new due_at
C10_Witness ==
    /\ last.op = "snooze"
    /\ last.ret # None
    /\ last.id \in DOMAIN reminders
    /\ Due(last.id) = last.ret.t
    /\ disk = FileOf(reminders)

----------------------------------------------------------------------------
(* Lifecycle of a record *)

Delivered(id) == \E d \in BagToSet(sent) : d.reminder_id = id
Returned(op, id) == last'.op = op /\ last'.id = id

\* C11 as claimed: after Complete(id) has returned true the Store holds no
\* record for id.
C11_CompletePurges ==
    (last.op = "complete" /\ last.ret) => last.id \notin DOMAIN reminders

\* C11 as amended: after Complete(id) has returned true the Store still holds
\* the record for id, with completed set and every other field, and every
\* other record, as before.
C11_CompleteMarksAndKeeps ==
    [][\A id \in issued :
          (Returned("complete", id) /\ last'.ret)
              => /\ id \in DOMAIN reminders /\ id \in DOMAIN reminders'
                 /\ reminders'[id].completed
                 /\ reminders' = [reminders EXCEPT ![id].completed = TRUE]]_vars

\* a reminder has been completed and its record is in the Store
C11_Witness ==
    /\ last.op = "complete" /\ last.ret
    /\ last.id \in DOMAIN reminders
    /\ reminders[last.id].completed

C13_DeliveryRemovesOneShot ==
    [][\A id \in DOMAIN reminders :
          (Fired(id) /\ Pending(reminders, id) /\ ~Recurs(reminders, id))
              => id \notin DOMAIN reminders']_vars

\* C13 as amended: when the fire handler of a pending reminder that does not
\* recur returns, the reminder has been delivered and its record remains in
\* the Store, pending.
C13_DeliveryKeepsOneShot ==
    [][\A id \in DOMAIN reminders :
          (Fired(id) /\ Pending(reminders, id) /\ ~Recurs(reminders, id))
              => /\ \E d \in BagToSet(sent') :
                       d.reminder_id = id /\ CopiesIn(d, sent') = CopiesIn(d, sent) + 1
                 /\ Pending(reminders', id)
                 /\ ~Recurs(reminders', id)]_vars

\* the job of a pending reminder that does not recur has run and the queue
\* holds no more job of it
C13_Witness ==
    /\ last.op = "fire"
    /\ Delivered(last.id)
    /\ Pending(reminders, last.id) /\ ~Recurs(reminders, last.id)
    /\ ArmedCount(last.id) = 0

----------------------------------------------------------------------------
(* Error handling *)

\* C15: Snooze, Complete and Delete on an id that is not in the Store return
\* None / false without raising and leave the Store, its file, the counters,
\* their file and the armed timers unchanged.
C15_UnknownIdIsNotFound ==
    [][\A id \in issued :
          (id \notin DOMAIN reminders
             /\ (Returned("snooze", id) \/ Returned("complete", id)
                    \/ Returned("delete", id)))
              => /\ last'.ret = IF last'.op = "snooze" THEN None ELSE FALSE
                 /\ last'.logged = {}
                 /\ UNCHANGED <<reminders, disk, stats, diskStats, jobs, sent>>]_vars

\* a snooze button of a notification was pressed after its reminder had been
\* removed
C15_Witness ==
    /\ last.op = "snooze"
    /\ last.ret = None
    /\ last.id \notin DOMAIN reminders
    /\ Delivered(last.id)

\* C20: a creation request whose resolved instant is not strictly after the
\* reference instant is rejected, and a rejection adds no record, arms no
\* timer and increments no counter.
C20_PastTimeRejected ==
    [][/\ \A id \in issued' :
             Created(id) => /\ id \in DOMAIN reminders'
                            /\ DueIn(reminders', id) > now
       /\ last'.op = "rejected"
             => /\ last'.time.t <= now
                /\ UNCHANGED <<reminders, disk, stats, diskStats, jobs, sent,
                               issued>>]_vars

\* a message naming the present instant itself has been rejected and nothing
\* was stored, counted or armed
C20_Witness ==
    /\ last.op = "rejected"
    /\ last.time.t = now
    /\ reminders = EmptyDict /\ stats = EmptyDict /\ jobs = EmptyBag

----------------------------------------------------------------------------
(* Delivery *)

\* the ids of the reminders due within the modelled period
DueIds == Chats \X (1..MaxTime) \X (0..(MaxCreated - 1))

\* C14: without a restart and with timers that expire, every reminder that
\* is created and never deleted is eventually delivered (a delivery with its
\* id is handed to the bot).
C14_CreatedIsEventuallyDelivered ==
    \A id \in DueIds :
        (id \in DOMAIN reminders) ~> (Delivered(id) \/ id \notin DOMAIN reminders)

----------------------------------------------------------------------------
(* Persistence *)

\* the handler that ran last called a Store operation that reported success
\* to it: add_reminder returned an id, snooze_reminder a time,
\* complete_reminder and delete_reminder true
ReportedSuccess(l) ==
    \/ l.op \in {"create", "template"}
    \/ l.op = "snooze" /\ l.ret # None
    \/ l.op \in {"complete", "delete"} /\ l.ret

\* the step wrote, or tried to write, reminders.json
WroteReminders ==
    \/ ReportedSuccess(last')
    \/ last'.op = "fire" /\ reminders' # reminders

\* the in-memory change of the handler that ran last is in place
MutationKept ==
    /\ last'.op \in {"create", "template"}
          => /\ last'.id \in DOMAIN reminders'
             /\ ~reminders'[last'.id].completed
             /\ stats' = update_stats(stats, reminders'[last'.id].chat_id, "created")
    /\ last'.op = "snooze"
          => /\ last'.id \in DOMAIN reminders'
             /\ FromIsoFormat(reminders'[last'.id].time) = last'.ret
             /\ DueIn(reminders', last'.id) = Due(last'.id) + last'.minutes
    /\ last'.op = "complete"
          => /\ last'.id \in DOMAIN reminders'
             /\ reminders'[last'.id].completed
    /\ last'.op = "delete" => last'.id \notin DOMAIN reminders'
    /\ last'.op = "fire"
          => DueIn(reminders', last'.id)
                 = Due(last'.id) + OneStep(reminders[last'.id].recurring)

\* C16: whenever a mutating Store operation (create, snooze, complete,
\* delete) has reported success to its caller, the write of the collection
\* has completed and reminders.json holds the in-memory collection.
C16_SuccessMeansDurable == ReportedSuccess(last) => disk = FileOf(reminders)

C18_BadFileLoadsEmpty ==
    [][last'.op \in {"restart", "aborted"}
          => /\ last'.op = "restart"
             /\ disk' = disk /\ diskStats' = diskStats
             /\ disk.kind \in {"missing", "corrupt"}
                   => (reminders' = EmptyDict /\ jobs' = EmptyBag)
             /\ diskStats.kind \in {"missing", "corrupt"} => stats' = EmptyDict
             /\ disk.kind = "ok" => DOMAIN reminders' = DOMAIN disk.data]_vars

\* the process has started on a reminders.json that a failed write had
\* truncated
C18_Witness ==
    /\ last.op = "restart"
    /\ disk.kind = "corrupt"
    /\ issued # {}
    /\ reminders = EmptyDict /\ jobs = EmptyBag

----------------------------------------------------------------------------
(* Locks *)

Taking(k) == locks.todo # <<>> /\ NextStep.k = k

----------------------------------------------------------------------------
(* Reading the Store *)

\* the four fields of a record that a creation request gives
Given(rdata) ==
    [message |-> rdata.message, category |-> rdata.category,
     priority |-> rdata.priority, recurring |-> rdata.recurring]

\* C21: a reminder that has just been created is in the ListActive of its
\* owner, with the text, category, priority and recurrence of the request
\* (a message, or a press of a template button).
C21_CreateThenListRoundTrip ==
    [][/\ \A c \in Users, m \in Messages, t \in ClockTimes, r \in RecurringValues,
             g \in CategoryValues, p \in UserPriorities, s \in ShareInputs :
             (handle_message(c, m, t, r, g, p, s, "ok", "ok") /\ last'.op = "create")
                 => LET got == get_user_reminders(reminders', c)
                    IN  /\ last'.id \in DOMAIN got
                        /\ Given(got[last'.id]) =
                               [message |-> m, category |-> g, priority |-> p,
                                recurring |-> r]
       /\ \A c \in Users, tp \in TEMPLATES, n \in TemplateInputs :
             (button_template(c, TemplateData(tp, n), "ok", "ok")
                  /\ last'.op = "template")
                 => LET got == get_user_reminders(reminders', c)
                    IN  /\ last'.id \in DOMAIN got
                        /\ Given(got[last'.id]) =
                               [message |-> tp.text, category |-> tp.category,
                                priority |-> "medium", recurring |-> "none"]]_vars

\* a weekly reminder of high priority has just been created and its owner
\* lists it
C21_Witness ==
    /\ last.op = "create"
    /\ last.id \in DOMAIN get_user_reminders(reminders, last.id[1])
    /\ reminders[last.id].priority = "high"
    /\ reminders[last.id].recurring = "weekly"

\* the reminders user u may view: not completed, and u is the owner or is
\* named in shared_with
Viewable(u) ==
    {id \in DOMAIN reminders :
        /\ ~reminders[id].completed
        /\ \/ reminders[id].chat_id = u
           \/ PyIn(PyStr(Username[u]), reminders[id].shared_with)}

\* C22: ListActive(owner) returns exactly the reminders in the Store that are
\* not completed and whose owner is the caller or whose shared_with contains
\* the caller.
C22_ListActiveIsOwnedOrShared ==
    \A u \in Users : DOMAIN get_user_reminders(reminders, u) = Viewable(u)

----------------------------------------------------------------------------
(* What a delivery carries *)

\* C23: each delivery for an id the Store holds carries the text and the
\* priority the Store holds for that id when the timer fires.
C23_DeliveryCarriesStoredValues ==
    [][\A j \in BagToSet(jobs) :
          (/\ send_reminder(j, "ok")
           /\ sent' = sent (+) SetToBag({Notification(j)})
           /\ j.reminder_id \in DOMAIN reminders)
              => /\ Notification(j).message = reminders[j.reminder_id].message
                 /\ Notification(j).priority = reminders[j.reminder_id].priority]_vars

----------------------------------------------------------------------------
(* Counters *)

Actions == {"created", "completed", "snoozed"}
CounterOf(st, chat_id, action) ==
    IF chat_id \in DOMAIN st THEN st[chat_id][action] ELSE 0
\* the step adds one to the counter action of chat_id and leaves every other
\* counter of every user as it was
CountsOne(chat_id, action) ==
    \A u \in Users, x \in Actions :
        CounterOf(stats', u, x) =
            CounterOf(stats, u, x) + (IF u = chat_id /\ x = action THEN 1 ELSE 0)
CountsNothing ==
    \A u \in Users, x \in Actions : CounterOf(stats', u, x) = CounterOf(stats, u, x)

\* C24: a creation, a Complete that returns true and a Snooze that returns a
\* due_at each add exactly one to the created, completed or snoozed counter
\* of the owner of the reminder; no other step changes a counter.
C24_CountersFollowOperations ==
    [][IF last'.op = "create"
       THEN CountsOne(reminders'[last'.id].chat_id, "created")
       ELSE IF last'.op = "complete" /\ last'.ret
       THEN CountsOne(reminders[last'.id].chat_id, "completed")
       ELSE IF last'.op = "snooze" /\ last'.ret # None
       THEN CountsOne(reminders[last'.id].chat_id, "snoozed")
       ELSE CountsNothing]_vars

\* the second user has snoozed a reminder of theirs, and it is counted
C24_Witness ==
    /\ last.op = "snooze" /\ last.ret # None
    /\ reminders[last.id].chat_id = 2
    /\ CounterOf(stats, 2, "snoozed") = 1
    /\ CounterOf(stats, 2, "created") = 1

----------------------------------------------------------------------------
(* Recurrence *)

\* the step of a rule whose step is the same from every instant, in minutes
FixedStep(recurring) ==
    IF recurring = "daily" THEN MinutesPerDay
    ELSE IF recurring = "weekly" THEN 7 * MinutesPerDay
    ELSE 30 * MinutesPerDay

\* C25: one application of the daily, weekly or monthly rule moves due_at by
\* 1, 7 or 30 days, and after n applications due_at is the first due_at (the
\* instant the id was made from) plus n times that step.
C25_StepsAddUp ==
    \A id \in DOMAIN reminders :
        reminders[id].recurring \in {"daily", "weekly", "monthly"}
            => Due(id) = id[2] + last.n * FixedStep(reminders[id].recurring)

\* the monthly rule has been applied twice
C25_Witness ==
    \E id \in DOMAIN reminders :
        /\ reminders[id].recurring = "monthly"
        /\ last.op = "next" /\ last.n = 2
        /\ Due(id) = id[2] + 2 * 30 * MinutesPerDay

\* the instant t falls on a Saturday or a Sunday
IsWeekend(t) == ((t \div 1440) % 7) \in {5, 6}

\* C26: one application of the weekday rule moves due_at to the same time of
\* day on the first later day that is not a Saturday or a Sunday.
C26_WeekdayNextIsFirstBusinessDay ==
    [][\A id \in DOMAIN reminders :
          (last'.op = "next" /\ reminders[id].recurring = "weekday")
              => LET t == Due(id)
                     t2 == DueIn(reminders', id)
                     days == (t2 - t) \div 1440
                 IN  /\ days >= 1
                     /\ t2 = t + days * 1440
                     /\ ~IsWeekend(t2)
                     /\ \A k \in 1..(days - 1) : IsWeekend(t + k * 1440)]_vars

\* the weekday rule has moved a reminder of a Friday to the Monday
C26_Witness ==
    \E id \in DOMAIN reminders :
        /\ reminders[id].recurring = "weekday"
        /\ last.op = "next" /\ last.n = 1
        /\ (id[2] \div 1440) % 7 = 4
        /\ Due(id) = id[2] + 3 * 1440

----------------------------------------------------------------------------
(* The Time Resolver *)

Resolved == last.op = "parse"
Today == (now \div 1440) * 1440
HasTomorrow(e) == \E i \in 1..Len(e) : e[i] = Wd(W_tomorrow)
Plain(e) == SelectSeq(e, LAMBDA x : x # Wd(W_tomorrow))

\* the minute of the day a 12-hour clock names
Wall12(h, m, period) ==
    (IF period = W_pm THEN (IF h = 12 THEN 12 ELSE h + 12)
     ELSE (IF h = 12 THEN 0 ELSE h)) * 60 + m
IsHourToken(x) == x.k \in {"num", "clock"} /\ x.n \in 1..12 /\ x.m \in 0..59
\* e is "[at] h[:mm] am|pm": the minute of the day it names, else -1
Clock12Of(e) ==
    IF Len(e) = 2 /\ IsHourToken(e[1]) /\ e[2] \in {Wd(W_am), Wd(W_pm)}
    THEN Wall12(e[1].n, e[1].m, e[2].w)
    ELSE IF Len(e) = 3 /\ e[1] = Wd(W_at) /\ IsHourToken(e[2])
            /\ e[3] \in {Wd(W_am), Wd(W_pm)}
    THEN Wall12(e[2].n, e[2].m, e[3].w)
    ELSE -1
\* e is "at h:mm": the minute of the day it names, else -1
Clock24Of(e) ==
    IF Len(e) = 2 /\ e[1] = Wd(W_at) /\ e[2].k = "clock" /\ e[2].n \in 0..23
       /\ e[2].m \in 0..59
    THEN e[2].n * 60 + e[2].m
    ELSE -1
ClockOf(e) == IF Clock12Of(e) # -1 THEN Clock12Of(e) ELSE Clock24Of(e)
\* e is a named moment: the minute of the day it names, else -1
MomentOf(e) ==
    IF e = <<Wd(W_lunch)>> THEN 13 * 60
    ELSE IF e = <<Wd(W_morning)>> THEN 9 * 60
    ELSE -1
IsUnitWord(x) == x \in {Wd(W_hours), Wd(W_minutes)}
\* e is "in <n> hours", "in <n> minutes" or "in <n> hours <n> minutes": the
\* minutes, else -1
DurationOf(e) ==
    IF Len(e) = 3 /\ e[1] = Wd(W_in) /\ e[2].k = "num" /\ e[3] = Wd(W_hours)
    THEN e[2].n * 60
    ELSE IF Len(e) = 3 /\ e[1] = Wd(W_in) /\ e[2].k = "num" /\ e[3] = Wd(W_minutes)
    THEN e[2].n
    ELSE IF Len(e) = 5 /\ e[1] = Wd(W_in) /\ e[2].k = "num" /\ e[3] = Wd(W_hours)
            /\ e[4].k = "num" /\ e[5] = Wd(W_minutes)
    THEN e[2].n * 60 + e[4].n
    ELSE -1
\* e is "in" and then numbers and units, with no number before a unit
NoDuration(e) ==
    /\ Len(e) >= 1 /\ e[1] = Wd(W_in)
    /\ \A i \in 2..Len(e) : e[i].k = "num" \/ IsUnitWord(e[i])
    /\ \A i \in 2..(Len(e) - 1) : ~(e[i].k = "num" /\ IsUnitWord(e[i + 1]))

\* C27: a 12-hour or 24-hour clock expression without "tomorrow" whose time
\* on the reference date is at or before the reference resolves to that
\* time on the next day.
C27_PastClockRollsOneDay ==
    (/\ Resolved
     /\ ~HasTomorrow(last.expr)
     /\ ClockOf(last.expr) # -1
     /\ Today + ClockOf(last.expr) <= now)
        => last.ret = [t |-> Today + 1440 + ClockOf(last.expr), aware |-> TRUE]

\* "at 5 pm" at 17:00 sharp is 17:00 of the next day
C27_Witness ==
    /\ Resolved
    /\ last.expr = <<Wd(W_at), Nm(5), Wd(W_pm)>>
    /\ now = 17 * 60
    /\ last.ret.t = 1440 + 17 * 60

\* C28: a named moment or a 12-hour or 24-hour clock expression with the
\* token "tomorrow" resolves to its time on the day after the reference
\* date, whether or not that time is still to come on the reference date.
C28_TomorrowForcesNextDay ==
    LET e == Plain(last.expr)
        wall == IF MomentOf(e) # -1 THEN MomentOf(e) ELSE ClockOf(e)
    IN  (Resolved /\ HasTomorrow(last.expr) /\ wall # -1)
            => last.ret = [t |-> Today + 1440 + wall, aware |-> TRUE]

\* C29: "in <h> hours", "in <m> minutes" and "in <h> hours <m> minutes"
\* resolve to the reference plus the duration, with or without "tomorrow";
\* "in" with no number and unit after it resolves to nothing.
C29_RelativeIsReferencePlusDuration ==
    Resolved =>
        /\ DurationOf(Plain(last.expr)) # -1
               => last.ret = [t |-> now + DurationOf(Plain(last.expr)), aware |-> TRUE]
        /\ NoDuration(last.expr) => last.ret = None

\* "in 5 hours 12 minutes" is the reference plus 312 minutes
C29_Witness ==
    /\ Resolved
    /\ last.expr = <<Wd(W_in), Nm(5), Wd(W_hours), Nm(12), Wd(W_minutes)>>
    /\ last.ret.t = now + 312

\* the place of the family of e in the order of the resolver, 0 when e is of
\* none of the four shapes
Rank(e) ==
    IF MomentOf(e) # -1 THEN 1
    ELSE IF DurationOf(e) # -1 THEN 2
    ELSE IF Clock12Of(e) # -1 THEN 3
    ELSE IF Clock24Of(e) # -1 THEN 4
    ELSE 0
\* what e resolves to when it stands alone
Alone(e) ==
    LET wall == IF MomentOf(e) # -1 THEN MomentOf(e) ELSE ClockOf(e)
    IN  IF DurationOf(e) # -1 THEN now + DurationOf(e)
        ELSE IF Today + wall <= now THEN Today + 1440 + wall
        ELSE Today + wall

\* C30: an expression made of two expressions of different families, in
\* either order, resolves to what the one whose family comes first in the
\* order named moment, relative offset, 12-hour clock, 24-hour clock resolves
\* to alone.
C30_FirstFamilyWins ==
    Resolved =>
        \A k \in 1..(Len(last.expr) - 1) :
            LET a == SubSeq(last.expr, 1, k)
                b == SubSeq(last.expr, k + 1, Len(last.expr))
            IN  (Rank(a) # 0 /\ Rank(b) # 0 /\ Rank(a) # Rank(b))
                    => last.ret = [t |-> Alone(IF Rank(a) < Rank(b) THEN a ELSE b),
                                   aware |-> TRUE]

\* "5 pm in 12 minutes" is the reference plus 12 minutes
C30_Witness ==
    /\ Resolved
    /\ last.expr = <<Nm(5), Wd(W_pm), Wd(W_in), Nm(12), Wd(W_minutes)>>
    /\ last.ret.t = now + 12

\* C31: parse_time returns a datetime or None for every expression and raises
\* nothing, clock expressions with digits out of range included.
C31_ResolveNeverAborts ==
    Resolved => (last.ret = None \/ (last.ret.aware /\ last.ret.t >= 0))

\* C32: a 12-hour clock expression resolves to a time of day with 12 pm at
\* hour 12, 12 am at hour 0, any other pm hour 12 hours on and any other am
\* hour as written.
C32_TwelveHourNormalised ==
    (Resolved /\ Clock12Of(Plain(last.expr)) # -1)
        => /\ last.ret.aware
           /\ last.ret.t % 1440 = Clock12Of(Plain(last.expr))

\* "12 am" is midnight, the next one
C32_Witness ==
    /\ Resolved
    /\ last.expr = <<Nm(12), Wd(W_am)>>
    /\ last.ret.t = 1440

----------------------------------------------------------------------------
(* What the Store holds of a message *)

CategoryNames == {Str(c) : c \in CATEGORIES}
PriorityNames == {"high", "medium", "low"}
RecurrenceNames == {"none", "daily", "weekly", "monthly", "weekday"}
\* the text has a #tag that names a category, a !tag that names a priority
NamesCategory(text) ==
    \E i \in 1..Len(text) : text[i].k = "hash" /\ Lower(text[i].w) \in CATEGORIES
NamesPriority(text) ==
    \E i \in 1..Len(text) :
        /\ text[i].k = "bang"
        /\ \E j \in 1..Len(PRIORITIES) : IsPrefix(PRIORITIES[j], Lower(text[i].w))

\* C33: every reminder in the Store has a text that is not empty, a category
\* of CATEGORIES, a priority of high, medium and low and a recurrence of
\* none, daily, weekly, monthly and weekday; the metadata of a text with no
\* tag that names a category has the category other, and of a text with no
\* tag that names a priority the priority medium.
C33_StoredFieldsAreValid ==
    /\ \A id \in DOMAIN reminders :
           /\ reminders[id].message # ""
           /\ reminders[id].category \in CategoryNames
           /\ reminders[id].priority \in PriorityNames
           /\ reminders[id].recurring \in RecurrenceNames
    /\ last.op = "metadata" =>
           /\ last.ret.category \in CategoryNames
           /\ last.ret.priority \in PriorityNames
           /\ ~NamesCategory(last.text) => last.ret.category = "other"
           /\ ~NamesPriority(last.text) => last.ret.priority = "medium"

\* "call mom #bogus in 5 minutes" is stored with the tag in its text and
\* the defaults
C33_Witness ==
    \E id \in DOMAIN reminders :
        /\ reminders[id].message = "call mom #bogus"
        /\ reminders[id].category = "other"
        /\ reminders[id].priority = "medium"
        /\ reminders[id].recurring = "none"

\* the text has the phrase "every weekday"
SaysEveryWeekday(text) ==
    \E i \in 1..(Len(text) - 1) : text[i] = Wd(W_every) /\ text[i + 1] = Wd(W_weekday)

\* C39: the metadata of a text with the phrase "every weekday" has the
\* recurrence weekday.
C39_EveryWeekdayIsWeekday ==
    (last.op = "metadata" /\ SaysEveryWeekday(last.text))
        => last.ret.recurring = "weekday"

----------------------------------------------------------------------------
(* Timers of the reminders to come *)

\* C34: between two handlers, every reminder of the Store that is not
\* completed and is due in the future has a timer armed.
C34_FutureReminderHasTimer ==
    \A id \in DOMAIN reminders :
        (~reminders[id].completed /\ Due(id) > now) => ArmedCount(id) >= 1

----------------------------------------------------------------------------
(* After Complete *)

\* the step delivers a notification of id
Delivers(id) ==
    \E d \in BagToSet(sent') :
        d.reminder_id = id /\ CopiesIn(d, sent') > CopiesIn(d, sent)

\* C35: no step delivers a reminder that the Store holds as completed.
C35_NoDeliveryAfterComplete ==
    [][\A id \in DOMAIN reminders : reminders[id].completed => ~Delivers(id)]_vars

\* C36: for every owner the completed counter is at most the created
\* counter.
C36_CompletedAtMostCreated ==
    \A chat_id \in DOMAIN stats : stats[chat_id].completed <= stats[chat_id].created

----------------------------------------------------------------------------
(* Snooze of a recurring reminder *)

\* the step is a snooze of id that found it in the Store
Snoozed(id) == last'.op = "snooze" /\ last'.id = id /\ last'.ret # None

\* C37: a snooze of a recurring reminder leaves the stored due_at, the next
\* regular occurrence, where the fire put it, and every fire of a recurring
\* reminder delivers it.
C37_SnoozeKeepsRecurrence ==
    [][\A id \in DOMAIN reminders :
          Recurs(reminders, id) =>
              /\ Snoozed(id) => DueIn(reminders', id) = DueIn(reminders, id)
              /\ Fired(id) => Delivers(id)]_vars

----------------------------------------------------------------------------
(* The quick templates *)

\* the step made the reminder of template tp, due in n minutes, and armed
\* its timer
MadeFromTemplate(tp, n) ==
    /\ last'.op = "template"
    /\ last'.id \notin DOMAIN reminders
    /\ DOMAIN reminders' = DOMAIN reminders \cup {last'.id}
    /\ reminders'[last'.id].message = tp.text
    /\ reminders'[last'.id].category = tp.category
    /\ DueIn(reminders', last'.id) = now + n
    /\ \E j \in BagToSet(jobs') :
           /\ j.reminder_id = last'.id /\ j.at = now + n
           /\ CopiesIn(j, jobs') = CopiesIn(j, jobs) + 1

\* C38: the button of every template and every delay makes one reminder
\* with the text and the category of the template, due after the delay, and
\* arms its timer.
C38_EveryTemplateButtonCreates ==
    [][\A c \in Chats, tp \in TEMPLATES, n \in TemplateInputs :
          button_template(c, TemplateData(tp, n), "ok", "ok") => MadeFromTemplate(tp, n)]_vars

====
